---- MODULE Spec2Model ----
(***************************************************************************)
(* A model of supabase-dart-exporter.                                      *)
(*                                                                         *)
(*  - Spec:     DatabaseExporter.export() of lib/exporter.js as a state    *)
(*              machine: one action per awaited stage, with every awaited  *)
(*              query and file write able to fail.                         *)
(*  - SpecDart: the two Dart model generators (lib/utils/files.js and the  *)
(*              psql-based converter) applied to bounded column rows.      *)
(*  - SpecSql:  generateTableSQL and formatCreateTable applied to bounded  *)
(*              column and constraint rows.                                *)
(*  - SpecData: formatInsert applied to bounded data rows.                 *)
(*  - SpecTypes: exportTypes' text and formatCreateEnum applied to bounded *)
(*              enum types.                                                *)
(*  - SpecMap:  the two getDartType functions applied to declared types.   *)
(*  - SpecRepeat: generateTableSQL and generateDartModel called more than  *)
(*              once on the same rows.                                     *)
(*  - SpecJson: the fromJson and toJson the converter emits, applied to a  *)
(*              table row.                                                 *)
(*  - SpecRuns: export() called twice on one DatabaseExporter.             *)
(*  - SpecConv: convertDbToDart's loop over the tables.                    *)
(***************************************************************************)
EXTENDS Integers, Sequences, FiniteSets, TLC

\* ------------------------------------------------------------------ bounds

\* Number of table names the catalog may hold.
MaxTables == 2

\* Largest number of enum types, of functions and of triggers in the catalog.
MaxObjects == 2

\* The most columns of a table given to the Dart generators.
MaxCols == 2

\* The most data rows given to formatInsert.
MaxRows == 2

\* Calls made of each renderer on one input.
MaxCalls == 2

\* ------------------------------------------------------------ JS values

\* JavaScript null / an absent option.
Null == "null"

\* The value of a call of an async function that has no return statement.
Undefined == "undefined"

\* JavaScript truthiness of a string-valued option (a string or Null).
Truthy(v) == v # Null /\ v # Undefined /\ v # ""

\* JavaScript `a || b` on string-valued options.
OrElse(a, b) == IF Truthy(a) THEN a ELSE b

\* An option holding a list of names: absent (null), or an array of names. An
\* array, even an empty one, is truthy.
NoList == [given |-> FALSE, names |-> {}]

ListOf(S) == [given |-> TRUE, names |-> S]

\* ---------------------------------------------------------------- catalog

\* Table names in ascending (ORDER BY table_name) order: index order is name order.
TableNames == <<"orders", "profiles", "users", "visits", "zones">>

TableIds == 1..MaxTables

TableName(t) == TableNames[t]

\* What information_schema.tables says of a name.
TableKinds == {"absent", "BASE TABLE", "VIEW"}

Catalogs ==
  [types: 0..MaxObjects, functions: 0..MaxObjects, triggers: 0..MaxObjects,
   tables: [TableIds -> TableKinds]]

\* The configurations export() is constructed with.
Configs ==
  [outputDir: {Null},
   dartOutputDir: {Null, "app/models"},
   schemaOnly: BOOLEAN,
   tables: {NoList} \cup {ListOf(S) : S \in SUBSET {TableName(t) : t \in TableIds}}]

\* The ascending sequence of a finite set of integers.
RECURSIVE SortedSeq(_)
SortedSeq(S) ==
  IF S = {} THEN <<>>
  ELSE LET m == CHOOSE x \in S : \A y \in S : x <= y
       IN <<m>> \o SortedSeq(S \ {m})

\* The set of elements of a sequence.
Range(s) == {s[i] : i \in 1..Len(s)}

\* ---------------------------------------------------------------- strings

\* A JavaScript string is the sequence of its characters; <<>> is the empty
\* string and, where a value is a string or null, null (both are falsy).
NoText == <<>>

\* Truthiness of a string-or-null value.
TruthyText(s) == s # NoText

LowerLetters == <<"a", "b", "c", "d", "e", "f", "g", "h", "i", "j", "k", "l", "m", "n", "o", "p", "q", "r", "s", "t", "u", "v", "w", "x", "y", "z">>

UpperLetters == <<"A", "B", "C", "D", "E", "F", "G", "H", "I", "J", "K", "L", "M", "N", "O", "P", "Q", "R", "S", "T", "U", "V", "W", "X", "Y", "Z">>

Digits == <<"0", "1", "2", "3", "4", "5", "6", "7", "8", "9">>

IsLower(c) == \E i \in 1..Len(LowerLetters) : LowerLetters[i] = c

IsUpper(c) == \E i \in 1..Len(UpperLetters) : UpperLetters[i] = c

IsDigit(c) == \E i \in 1..Len(Digits) : Digits[i] = c

\* The value of a decimal digit.
DigitValue(c) == (CHOOSE i \in 1..Len(Digits) : Digits[i] = c) - 1

LowerChar(c) ==
  IF IsUpper(c) THEN LowerLetters[CHOOSE i \in 1..Len(UpperLetters) : UpperLetters[i] = c] ELSE c

UpperChar(c) ==
  IF IsLower(c) THEN UpperLetters[CHOOSE i \in 1..Len(LowerLetters) : LowerLetters[i] = c] ELSE c

\* String.prototype.toLowerCase
ToLowerCase(s) == [i \in 1..Len(s) |-> LowerChar(s[i])]

\* s holds sub at index i.
StartsAt(s, sub, i) ==
  /\ i >= 1
  /\ i + Len(sub) - 1 <= Len(s)
  /\ SubSeq(s, i, i + Len(sub) - 1) = sub

\* String.prototype.includes
Includes(s, sub) == \E i \in 1..(Len(s) - Len(sub) + 1) : StartsAt(s, sub, i)

\* The first index >= from at which s holds sub, or 0.
IndexFrom(s, sub, from) ==
  LET hits == {i \in from..(Len(s) - Len(sub) + 1) : StartsAt(s, sub, i)}
  IN IF hits = {} THEN 0 ELSE CHOOSE i \in hits : \A j \in hits : i <= j

\* String.prototype.endsWith
EndsWith(s, sub) == StartsAt(s, sub, Len(s) - Len(sub) + 1)

\* s without every occurrence of the character c: s.replace(/c/g, '').
RECURSIVE RemoveChar(_, _)
RemoveChar(s, c) ==
  IF s = <<>> THEN <<>>
  ELSE (IF Head(s) = c THEN <<>> ELSE <<Head(s)>>) \o RemoveChar(Tail(s), c)

IsSpace(c) == c = " "

\* String.prototype.trim
RECURSIVE TrimLeft(_)
TrimLeft(s) == IF s # <<>> /\ IsSpace(Head(s)) THEN TrimLeft(Tail(s)) ELSE s

RECURSIVE TrimRight(_)
TrimRight(s) ==
  IF s # <<>> /\ IsSpace(s[Len(s)]) THEN TrimRight(SubSeq(s, 1, Len(s) - 1)) ELSE s

Trim(s) == TrimRight(TrimLeft(s))

\* String.prototype.split(c) for a one-character separator.
RECURSIVE Split(_, _)
Split(s, c) ==
  LET i == IndexFrom(s, <<c>>, 1)
  IN IF i = 0 THEN <<s>>
     ELSE <<SubSeq(s, 1, i - 1)>> \o Split(SubSeq(s, i + 1, Len(s)), c)

\* Array.prototype.join(sep)
RECURSIVE Join(_, _)
Join(parts, sep) ==
  IF parts = <<>> THEN <<>>
  ELSE IF Len(parts) = 1 THEN parts[1]
  ELSE parts[1] \o sep \o Join(Tail(parts), sep)

\* Number.prototype.toString of an integer.
RECURSIVE NatToString(_)
NatToString(n) ==
  IF n < 10 THEN <<Digits[n + 1]>>
  ELSE NatToString(n \div 10) \o <<Digits[(n % 10) + 1]>>

IntToString(n) == IF n < 0 THEN <<"-">> \o NatToString(0 - n) ELSE NatToString(n)

\* The not-a-number result of parseInt.
NaN == [nan |-> TRUE, value |-> 0]

\* The value of a string of digits.
RECURSIVE DigitsValue(_)
DigitsValue(s) ==
  IF s = <<>> THEN 0
  ELSE 10 * DigitsValue(SubSeq(s, 1, Len(s) - 1)) + DigitValue(s[Len(s)])

\* The longest prefix of s made of digits.
RECURSIVE DigitPrefix(_)
DigitPrefix(s) ==
  IF s # <<>> /\ IsDigit(Head(s)) THEN <<Head(s)>> \o DigitPrefix(Tail(s)) ELSE <<>>

\* parseInt(s, 10): leading blanks are skipped, then an optional sign, then
\* the longest run of digits; NaN when there is no digit.
ParseInt(s) ==
  LET t == TrimLeft(s)
      signed == t # <<>> /\ Head(t) \in {"-", "+"}
      body == IF signed THEN Tail(t) ELSE t
      ds == DigitPrefix(body)
  IN IF ds = <<>> THEN NaN
     ELSE [nan |-> FALSE,
           value |-> IF signed /\ Head(t) = "-" THEN 0 - DigitsValue(ds) ELSE DigitsValue(ds)]

IsAlnum(c) == IsLower(c) \/ IsUpper(c) \/ IsDigit(c)

\* change-case's split() starts a new word inside a run of letters and digits
\* before an upper-case letter that follows a lower-case letter or a digit,
\* and before the last upper-case letter of a run that a lower-case letter
\* follows.
WordBoundary(s, i) ==
  /\ i >= 2
  /\ IsUpper(s[i])
  /\ \/ IsLower(s[i - 1]) \/ IsDigit(s[i - 1])
     \/ IsUpper(s[i - 1]) /\ i + 1 <= Len(s) /\ IsLower(s[i + 1])

\* The words from index i on, cur being the word under construction.
RECURSIVE WordsFrom(_, _, _)
WordsFrom(s, i, cur) ==
  LET done == IF cur = <<>> THEN <<>> ELSE <<cur>>
  IN IF i > Len(s) THEN done
     ELSE IF ~IsAlnum(s[i]) THEN done \o WordsFrom(s, i + 1, <<>>)
     ELSE IF cur # <<>> /\ WordBoundary(s, i) THEN <<cur>> \o WordsFrom(s, i + 1, <<s[i]>>)
     ELSE WordsFrom(s, i + 1, Append(cur, s[i]))

\* The words change-case splits a name into: every run of characters that are
\* neither letters nor digits separates two words.
Words(s) == WordsFrom(s, 1, <<>>)

\* pascalCase's transform of a word: first letter in upper case, the rest in
\* lower case; a word after the first that starts with a digit gets a "_".
Capitalize(w, index) ==
  (IF index > 1 /\ IsDigit(Head(w)) THEN <<"_", Head(w)>> ELSE <<UpperChar(Head(w))>>)
    \o ToLowerCase(Tail(w))

\* pascalCase of change-case.
PascalCase(s) ==
  LET ws == Words(s) IN Join([i \in 1..Len(ws) |-> Capitalize(ws[i], i)], <<>>)

\* camelCase of change-case.
CamelCase(s) ==
  LET ws == Words(s)
  IN Join([i \in 1..Len(ws) |-> IF i = 1 THEN ToLowerCase(ws[i]) ELSE Capitalize(ws[i], i)], <<>>)

\* ------------------------------------------- lib/utils/files.js: Dart model

IntTypes == {<<"i", "n", "t", "e", "g", "e", "r">>, <<"s", "m", "a", "l", "l", "i", "n", "t">>, <<"b", "i", "g", "i", "n", "t">>, <<"s", "e", "r", "i", "a", "l">>, <<"b", "i", "g", "s", "e", "r", "i", "a", "l">>}

DoubleTypes ==
  {<<"d", "e", "c", "i", "m", "a", "l">>, <<"n", "u", "m", "e", "r", "i", "c">>, <<"r", "e", "a", "l">>, <<"d", "o", "u", "b", "l", "e", " ", "p", "r", "e", "c", "i", "s", "i", "o", "n">>, <<"f", "l", "o", "a", "t">>, <<"f", "l", "o", "a", "t", "4">>,
   <<"f", "l", "o", "a", "t", "8">>}

DateTimeTypes ==
  {<<"t", "i", "m", "e", "s", "t", "a", "m", "p">>, <<"t", "i", "m", "e", "s", "t", "a", "m", "p", " ", "w", "i", "t", "h", " ", "t", "i", "m", "e", " ", "z", "o", "n", "e">>, <<"t", "i", "m", "e", "s", "t", "a", "m", "p", " ", "w", "i", "t", "h", "o", "u", "t", " ", "t", "i", "m", "e", " ", "z", "o", "n", "e">>,
   <<"t", "i", "m", "e", "s", "t", "a", "m", "p", "t", "z">>, <<"d", "a", "t", "e">>, <<"t", "i", "m", "e">>, <<"t", "i", "m", "e", " ", "w", "i", "t", "h", " ", "t", "i", "m", "e", " ", "z", "o", "n", "e">>,
   <<"t", "i", "m", "e", " ", "w", "i", "t", "h", "o", "u", "t", " ", "t", "i", "m", "e", " ", "z", "o", "n", "e">>, <<"t", "i", "m", "e", "t", "z">>}

StringArrayTypes == {<<"t", "e", "x", "t", "[", "]">>, <<"v", "a", "r", "c", "h", "a", "r", "[", "]">>, <<"c", "h", "a", "r", "a", "c", "t", "e", "r", " ", "v", "a", "r", "y", "i", "n", "g", "[", "]">>}

IntArrayTypes == {<<"i", "n", "t", "e", "g", "e", "r", "[", "]">>, <<"i", "n", "t", "[", "]">>, <<"b", "i", "g", "i", "n", "t", "[", "]">>}

DoubleArrayTypes == {<<"n", "u", "m", "e", "r", "i", "c", "[", "]">>, <<"d", "e", "c", "i", "m", "a", "l", "[", "]">>, <<"d", "o", "u", "b", "l", "e", " ", "p", "r", "e", "c", "i", "s", "i", "o", "n", "[", "]">>}

\* getDartType(pgType, isNullable)
GetDartType(pgType, isNullable) ==
  LET nullSuffix == IF isNullable THEN <<"?">> ELSE <<>>
      t == ToLowerCase(pgType)
  IN (CASE t \in IntTypes -> <<"i", "n", "t">>
        [] t \in DoubleTypes -> <<"d", "o", "u", "b", "l", "e">>
        [] t = <<"b", "o", "o", "l", "e", "a", "n">> -> <<"b", "o", "o", "l">>
        [] t \in DateTimeTypes -> <<"D", "a", "t", "e", "T", "i", "m", "e">>
        [] t \in {<<"j", "s", "o", "n">>, <<"j", "s", "o", "n", "b">>} -> <<"M", "a", "p", "<", "S", "t", "r", "i", "n", "g", ",", " ", "d", "y", "n", "a", "m", "i", "c", ">">>
        [] t = <<"u", "u", "i", "d">> -> <<"S", "t", "r", "i", "n", "g">>
        [] t = <<"b", "y", "t", "e", "a">> -> <<"L", "i", "s", "t", "<", "i", "n", "t", ">">>
        [] t \in StringArrayTypes -> <<"L", "i", "s", "t", "<", "S", "t", "r", "i", "n", "g", ">">>
        [] t \in IntArrayTypes -> <<"L", "i", "s", "t", "<", "i", "n", "t", ">">>
        [] t = <<"b", "o", "o", "l", "e", "a", "n", "[", "]">> -> <<"L", "i", "s", "t", "<", "b", "o", "o", "l", ">">>
        [] t \in DoubleArrayTypes -> <<"L", "i", "s", "t", "<", "d", "o", "u", "b", "l", "e", ">">>
        [] OTHER -> <<"S", "t", "r", "i", "n", "g">>) \o nullSuffix

\* defaultValue.match(/'([^']*)'::text/): the capture of the leftmost match,
\* as [found, group].
MatchTextDefault(s) ==
  LET starts == {i \in 1..Len(s) :
                   /\ s[i] = "'"
                   /\ LET j == IndexFrom(s, <<"'">>, i + 1)
                      IN j # 0 /\ StartsAt(s, <<":", ":", "t", "e", "x", "t">>, j + 1)}
  IN IF starts = {} THEN [found |-> FALSE, group |-> <<>>]
     ELSE LET i == CHOOSE k \in starts : \A m \in starts : k <= m
              j == IndexFrom(s, <<"'">>, i + 1)
          IN [found |-> TRUE, group |-> SubSeq(s, i + 1, j - 1)]

\* Mutant of GetDefaultValue: the numeric branch is missing.
GetDefaultValueNoNumeric(defaultValue, dataType) ==
  IF ~TruthyText(defaultValue) THEN NoText
  ELSE IF Includes(defaultValue, <<"n", "e", "x", "t", "v", "a", "l", "(">>) THEN NoText
  ELSE IF Includes(defaultValue, <<"n", "o", "w", "(", ")">>) THEN <<"D", "a", "t", "e", "T", "i", "m", "e", ".", "n", "o", "w", "(", ")">>
  ELSE IF dataType \in {<<"t", "e", "x", "t">>, <<"c", "h", "a", "r", "a", "c", "t", "e", "r", " ", "v", "a", "r", "y", "i", "n", "g">>} /\ MatchTextDefault(defaultValue).found
       THEN <<"'">> \o MatchTextDefault(defaultValue).group \o <<"'">>
  ELSE IF dataType = <<"b", "o", "o", "l", "e", "a", "n">> /\ ToLowerCase(defaultValue) = <<"t", "r", "u", "e">> THEN <<"t", "r", "u", "e">>
  ELSE IF dataType = <<"b", "o", "o", "l", "e", "a", "n">> /\ ToLowerCase(defaultValue) = <<"f", "a", "l", "s", "e">> THEN <<"f", "a", "l", "s", "e">>
  ELSE NoText

\* getDefaultValue(defaultValue, dataType): the Dart literal, or NoText for null.
GetDefaultValue(defaultValue, dataType) ==
  IF ~TruthyText(defaultValue) THEN NoText
  ELSE IF Includes(defaultValue, <<"n", "e", "x", "t", "v", "a", "l", "(">>) THEN NoText
  ELSE IF Includes(defaultValue, <<"n", "o", "w", "(", ")">>) THEN <<"D", "a", "t", "e", "T", "i", "m", "e", ".", "n", "o", "w", "(", ")">>
  ELSE IF dataType \in {<<"t", "e", "x", "t">>, <<"c", "h", "a", "r", "a", "c", "t", "e", "r", " ", "v", "a", "r", "y", "i", "n", "g">>} /\ MatchTextDefault(defaultValue).found
       THEN <<"'">> \o MatchTextDefault(defaultValue).group \o <<"'">>
  ELSE IF dataType \in {<<"i", "n", "t", "e", "g", "e", "r">>, <<"b", "i", "g", "i", "n", "t">>, <<"n", "u", "m", "e", "r", "i", "c">>} /\ ~ParseInt(defaultValue).nan
       THEN IntToString(ParseInt(defaultValue).value)
  ELSE IF dataType = <<"b", "o", "o", "l", "e", "a", "n">> /\ ToLowerCase(defaultValue) = <<"t", "r", "u", "e">> THEN <<"t", "r", "u", "e">>
  ELSE IF dataType = <<"b", "o", "o", "l", "e", "a", "n">> /\ ToLowerCase(defaultValue) = <<"f", "a", "l", "s", "e">> THEN <<"f", "a", "l", "s", "e">>
  ELSE NoText

\* check_clause.match(/\(\((.*?) = ANY \(ARRAY\[(.*?)\]\)\)/): the leftmost
\* match with both groups as short as possible, as [found, column, list].
MatchEnumClause(s) ==
  LET open == IndexFrom(s, <<"(", "(">>, 1)
      mark == <<" ", "=", " ", "A", "N", "Y", " ", "(", "A", "R", "R", "A", "Y", "[">>
      j == IF open = 0 THEN 0 ELSE IndexFrom(s, mark, open + 2)
      k == IF j = 0 THEN 0 ELSE IndexFrom(s, <<"]", ")", ")">>, j + Len(mark))
  IN IF k = 0 THEN [found |-> FALSE, column |-> <<>>, list |-> <<>>]
     ELSE [found |-> TRUE,
           column |-> SubSeq(s, open + 2, j - 1),
           list |-> SubSeq(s, j + Len(mark), k - 1)]

\* s.replace(/::[a-z]+$/, ''): a trailing cast is cut off.
StripTrailingCast(s) ==
  LET cuts == {i \in 1..(Len(s) - 2) :
                 /\ StartsAt(s, <<":", ":">>, i)
                 /\ \A m \in (i + 2)..Len(s) : IsLower(s[m])}
  IN IF cuts = {} THEN s
     ELSE SubSeq(s, 1, (CHOOSE i \in cuts : \A m \in cuts : i <= m) - 1)

\* v.replace(/^'|'::text'$/g, ''): a leading quote and a trailing '::text'
\* (quote included) are removed.
StripQuoteEnds(v) ==
  LET a == IF v # <<>> /\ Head(v) = "'" THEN Tail(v) ELSE v
      tail == <<"'", ":", ":", "t", "e", "x", "t", "'">>
  IN IF EndsWith(a, tail) THEN SubSeq(a, 1, Len(a) - Len(tail)) ELSE a

\* Mutant of EnumValue: the trailing cast is kept.
EnumValueKeepsCast(v) == RemoveChar(StripQuoteEnds(Trim(v)), "'")

\* One value of an enum constraint's list, cleaned as lines 164-166 do.
EnumValue(v) == RemoveChar(StripTrailingCast(StripQuoteEnds(Trim(v))), "'")

\* The enumConstraints of generateDartModel: one entry per CHECK row whose
\* clause holds '= ANY (ARRAY[' and matches the pattern.
EnumConstraints(constraints) ==
  LET rows == SelectSeq(constraints,
                LAMBDA c : /\ c.constraint_type = "CHECK"
                           /\ Includes(c.check_clause, <<"=", " ", "A", "N", "Y", " ", "(", "A", "R", "R", "A", "Y", "[">>)
                           /\ MatchEnumClause(c.check_clause).found)
  IN [i \in 1..Len(rows) |->
        LET m == MatchEnumClause(rows[i].check_clause)
            parts == Split(m.list, ",")
        IN [column |-> m.column,
            values |-> [n \in 1..Len(parts) |-> EnumValue(parts[n])]]]

\* The enum declarations emitted before the class: one per enumConstraints entry.
EnumDeclarations(enumConstraints) ==
  [i \in 1..Len(enumConstraints) |->
     [name |-> PascalCase(enumConstraints[i].column) \o <<"T", "y", "p", "e">>,
      members |-> [n \in 1..Len(enumConstraints[i].values) |->
                     [jsonValue |-> enumConstraints[i].values[n],
                      member |-> CamelCase(enumConstraints[i].values[n])]]]]

\* The /// lines of a field (generateDocs).
FieldDocs(column, constraints) ==
  LET pks == SelectSeq(constraints,
               LAMBDA c : c.constraint_type = "PRIMARY KEY" /\ TruthyText(c.column_name))
      fks == SelectSeq(constraints,
               LAMBDA c : c.constraint_type = "FOREIGN KEY" /\ TruthyText(c.column_name))
      fk == SelectSeq(fks, LAMBDA c : c.column_name = column.column_name)
  IN <<<<"/", "/", "/", " ">> \o column.column_name \o <<" ", "f", "i", "e", "l", "d">>>>
     \o (IF \E i \in 1..Len(pks) : pks[i].column_name = column.column_name
         THEN <<<<"/", "/", "/", " ", "P", "r", "i", "m", "a", "r", "y", " ", "k", "e", "y">>>> ELSE <<>>)
     \o (IF fk # <<>>
         THEN <<<<"/", "/", "/", " ", "F", "o", "r", "e", "i", "g", "n", " ", "k", "e", "y", " ", "r", "e", "f", "e", "r", "e", "n", "c", "e", " ", "t", "o", " ">> \o fk[1].foreign_table_name \o <<"(">>
                  \o fk[1].foreign_column_name \o <<")">>>>
         ELSE <<>>)
     \o (IF TruthyText(column.column_default)
         THEN <<<<"/", "/", "/", " ", "D", "e", "f", "a", "u", "l", "t", ":", " ">> \o column.column_default>> ELSE <<>>)

\* Mutant of FieldType: the type never gets the `?` suffix.
FieldTypeNeverNullable(column, enumConstraints) ==
  IF \E i \in 1..Len(enumConstraints) : enumConstraints[i].column = column.column_name
  THEN PascalCase(column.column_name) \o <<"T", "y", "p", "e">>
  ELSE GetDartType(column.data_type, FALSE)

\* The type of a field: getDartType's, or the enum's name when the column has
\* an enum constraint.
FieldType(column, enumConstraints) ==
  IF \E i \in 1..Len(enumConstraints) : enumConstraints[i].column = column.column_name
  THEN PascalCase(column.column_name) \o <<"T", "y", "p", "e">>
         \o (IF column.is_nullable = "YES" THEN <<"?">> ELSE <<>>)
  ELSE GetDartType(column.data_type, column.is_nullable = "YES")

\* Mutant of FieldParameter: every non-nullable field is marked required,
\* defaults are not looked at.
FieldParameterAlwaysRequired(column, dartType) ==
  [jsonKey |-> column.column_name,
   modifier |-> IF column.is_nullable = "NO" THEN "required" ELSE "",
   default |-> NoText,
   dartType |-> dartType,
   fieldName |-> CamelCase(column.column_name)]

\* Mutant of FieldParameter: a non-nullable column whose default is not
\* translated gets neither `required` nor @Default.
FieldParameterDropsUnrecognized(column, dartType) ==
  LET defaultValue == GetDefaultValue(column.column_default, column.data_type)
      withDefault ==
        /\ column.is_nullable = "NO"
        /\ TruthyText(column.column_default)
        /\ defaultValue # NoText
  IN [jsonKey |-> column.column_name,
      modifier |-> IF column.is_nullable # "NO" THEN ""
                   ELSE IF withDefault THEN "@Default"
                   ELSE IF TruthyText(column.column_default) THEN "" ELSE "required",
      default |-> IF withDefault THEN defaultValue ELSE NoText,
      dartType |-> dartType,
      fieldName |-> CamelCase(column.column_name)]

\* The constructor parameter of a column: @JsonKey(name: ...) and one of
\* `@Default(v) type name,`, `required type name,`, `type name,`.
FieldParameter(column, dartType) ==
  LET defaultValue == GetDefaultValue(column.column_default, column.data_type)
      withDefault ==
        /\ column.is_nullable = "NO"
        /\ TruthyText(column.column_default)
        /\ defaultValue # NoText
  IN [jsonKey |-> column.column_name,
      modifier |-> IF column.is_nullable # "NO" THEN ""
                   ELSE IF withDefault THEN "@Default" ELSE "required",
      default |-> IF withDefault THEN defaultValue ELSE NoText,
      dartType |-> dartType,
      fieldName |-> CamelCase(column.column_name)]

\* generateDartModel(tableName, columns, constraints, options)
GenerateDartModel(tableName, columns, constraints, generateDocs) ==
  LET enumConstraints == EnumConstraints(constraints)
  IN [className |-> PascalCase(tableName),
      enums |-> EnumDeclarations(enumConstraints),
      fields |-> [i \in 1..Len(columns) |->
                    [docs |-> IF generateDocs THEN FieldDocs(columns[i], constraints)
                              ELSE <<>>,
                     param |-> FieldParameter(columns[i],
                                              FieldType(columns[i], enumConstraints))]]]

\* ------------------------------------- the psql-based converter (db-to-dart)

\* PG_TO_DART_TYPE[pgType], NoText where the map has no such key.
PgToDartType(pgType) ==
  CASE pgType \in {<<"c", "h", "a", "r", "a", "c", "t", "e", "r", " ", "v", "a", "r", "y", "i", "n", "g">>, <<"v", "a", "r", "c", "h", "a", "r">>, <<"c", "h", "a", "r", "a", "c", "t", "e", "r">>, <<"c", "h", "a", "r">>, <<"t", "e", "x", "t">>, <<"u", "u", "i", "d">>} -> <<"S", "t", "r", "i", "n", "g">>
    [] pgType \in {<<"s", "m", "a", "l", "l", "i", "n", "t">>, <<"i", "n", "t", "e", "g", "e", "r">>, <<"b", "i", "g", "i", "n", "t">>} -> <<"i", "n", "t">>
    [] pgType \in {<<"d", "e", "c", "i", "m", "a", "l">>, <<"n", "u", "m", "e", "r", "i", "c">>, <<"r", "e", "a", "l">>, <<"d", "o", "u", "b", "l", "e", " ", "p", "r", "e", "c", "i", "s", "i", "o", "n">>} -> <<"d", "o", "u", "b", "l", "e">>
    [] pgType = <<"b", "o", "o", "l", "e", "a", "n">> -> <<"b", "o", "o", "l">>
    [] pgType \in {<<"d", "a", "t", "e">>, <<"t", "i", "m", "e", "s", "t", "a", "m", "p">>, <<"t", "i", "m", "e", "s", "t", "a", "m", "p", " ", "w", "i", "t", "h", "o", "u", "t", " ", "t", "i", "m", "e", " ", "z", "o", "n", "e">>, <<"t", "i", "m", "e", "s", "t", "a", "m", "p", " ", "w", "i", "t", "h", " ", "t", "i", "m", "e", " ", "z", "o", "n", "e">>} -> <<"D", "a", "t", "e", "T", "i", "m", "e">>
    [] pgType \in {<<"t", "i", "m", "e">>, <<"t", "i", "m", "e", " ", "w", "i", "t", "h", "o", "u", "t", " ", "t", "i", "m", "e", " ", "z", "o", "n", "e">>, <<"t", "i", "m", "e", " ", "w", "i", "t", "h", " ", "t", "i", "m", "e", " ", "z", "o", "n", "e">>} -> <<"T", "i", "m", "e", "O", "f", "D", "a", "y">>
    [] pgType \in {<<"j", "s", "o", "n">>, <<"j", "s", "o", "n", "b">>} -> <<"M", "a", "p", "<", "S", "t", "r", "i", "n", "g", ",", " ", "d", "y", "n", "a", "m", "i", "c", ">">>
    [] OTHER -> NoText

\* toPascalCase(str): split('_'), each word capitalized, joined.
ToPascalCase(str) ==
  LET ws == Split(str, "_")
  IN Join([i \in 1..Len(ws) |->
             IF ws[i] = <<>> THEN <<>>
             ELSE <<UpperChar(Head(ws[i]))>> \o ToLowerCase(Tail(ws[i]))], <<>>)

\* The line psql -t -A prints for a row of information_schema.columns: the
\* selected fields joined with "|", a null printed as the empty string.
PsqlLine(row) ==
  Join(<<row.column_name, row.data_type, row.data_type,
         IF row.is_nullable = "YES" THEN <<"Y", "E", "S">> ELSE <<"N", "O">>,
         row.column_default, <<>>, <<>>, <<>>>>, <<"|">>)

\* getTableColumns' map over the output lines: line.split('|'), by position.
ConvColumns(lines) ==
  [i \in 1..Len(lines) |->
     LET parts == Split(lines[i], "|")
         part(n) == IF n <= Len(parts) THEN parts[n] ELSE NoText
     IN [name |-> part(1),
         pgType |-> part(2),
         isNullable |-> (part(4) = <<"Y", "E", "S">>),
         default |-> part(5)]]

\* column.pgType.match(/ARRAY\[(.*)\]/): the leftmost "ARRAY[" and the last
\* "]" after it, as [found, group].
MatchArrayType(s) ==
  LET open == IndexFrom(s, <<"A", "R", "R", "A", "Y", "[">>, 1)
      closes == IF open = 0 THEN {} ELSE {k \in (open + 6)..Len(s) : s[k] = "]"}
  IN IF closes = {} THEN [found |-> FALSE, group |-> <<>>]
     ELSE [found |-> TRUE,
           group |-> SubSeq(s, open + 6, (CHOOSE k \in closes : \A m \in closes : m <= k) - 1)]

\* getDartType(column) of the converter, as [throws, type]: indexing the null
\* result of match() is a TypeError.
ConvGetDartType(column) ==
  IF StartsAt(column.pgType, <<"A", "R", "R", "A", "Y">>, 1)
  THEN LET m == MatchArrayType(column.pgType)
       IN IF ~m.found THEN [throws |-> TRUE, type |-> NoText]
          ELSE [throws |-> FALSE,
                type |-> <<"L", "i", "s", "t", "<">>
                           \o (IF TruthyText(PgToDartType(m.group)) THEN PgToDartType(m.group)
                               ELSE <<"d", "y", "n", "a", "m", "i", "c">>)
                           \o <<">">>]
  ELSE IF column.pgType = <<"U", "S", "E", "R", "-", "D", "E", "F", "I", "N", "E", "D">> THEN [throws |-> FALSE, type |-> <<"S", "t", "r", "i", "n", "g">>]
  ELSE [throws |-> FALSE,
        type |-> IF TruthyText(PgToDartType(column.pgType)) THEN PgToDartType(column.pgType)
                 ELSE <<"d", "y", "n", "a", "m", "i", "c">>]

\* The constructor's parameters: `required this.<name>,` or `this.<name>,`.
ConvConstructor(columns) ==
  [i \in 1..Len(columns) |-> [required |-> ~columns[i].isNullable, name |-> columns[i].name]]

\* generateDartModel(tableName, options) of the converter, given the lines
\* psql printed: ok is FALSE when getDartType threw (the catch rethrows),
\* otherwise the class name, the properties and the constructor.
ConvGenerateDartModel(tableName, lines, generateDocs) ==
  LET columns == ConvColumns(lines)
  IN IF \E i \in 1..Len(columns) : ConvGetDartType(columns[i]).throws
     THEN [ok |-> FALSE, className |-> NoText, properties |-> <<>>, ctor |-> <<>>]
     ELSE [ok |-> TRUE,
           className |-> ToPascalCase(tableName),
           properties |-> [i \in 1..Len(columns) |->
                             [docs |-> IF ~generateDocs THEN <<>>
                                       ELSE <<<<"/", "/", "/", " ">> \o columns[i].name \o <<" ", "f", "i", "e", "l", "d">>>>
                                            \o (IF TruthyText(columns[i].default)
                                                THEN <<<<"/", "/", "/", " ", "D", "e", "f", "a", "u", "l", "t", ":", " ">> \o columns[i].default>>
                                                ELSE <<>>),
                              type |-> ConvGetDartType(columns[i]).type
                                         \o (IF columns[i].isNullable THEN <<"?">> ELSE <<>>),
                              name |-> columns[i].name]],
           ctor |-> ConvConstructor(columns)]

\* ------------------------------------------ lib/utils/files.js: CREATE TABLE

\* A template's ${n} for a number that is truthy: (n) in a size suffix.
Parens(inner) == <<"(">> \o inner \o <<")">>

\* One element of columnLines: a column of generateTableSQL. The sizes are
\* numbers or null; 0 stands for null, both being falsy.
ColumnLine(col) ==
  <<" ", " ">> \o col.column_name \o <<" ">> \o col.data_type
    \o (IF col.character_maximum_length # 0
        THEN Parens(NatToString(col.character_maximum_length)) ELSE <<>>)
    \o (IF col.numeric_precision # 0 /\ col.data_type # <<"s", "e", "r", "i", "a", "l">>
        THEN (IF col.numeric_scale # 0
              THEN Parens(NatToString(col.numeric_precision) \o <<",">>
                            \o NatToString(col.numeric_scale))
              ELSE Parens(NatToString(col.numeric_precision)))
        ELSE <<>>)
    \o (IF col.is_nullable = "NO" THEN <<" ", "N", "O", "T", " ", "N", "U", "L", "L">> ELSE <<>>)
    \o (IF TruthyText(col.column_default) THEN <<" ", "D", "E", "F", "A", "U", "L", "T", " ">> \o col.column_default ELSE <<>>)

\* Mutant of GetActionType: RESTRICT is not known.
GetActionTypeNoRestrict(type) ==
  CASE type = "c" -> <<"C", "A", "S", "C", "A", "D", "E">>
    [] type = "n" -> <<"S", "E", "T", " ", "N", "U", "L", "L">>
    [] type = "d" -> <<"S", "E", "T", " ", "D", "E", "F", "A", "U", "L", "T">>
    [] OTHER -> <<"N", "O", " ", "A", "C", "T", "I", "O", "N">>

\* getActionType(type)
GetActionType(type) ==
  CASE type = "c" -> <<"C", "A", "S", "C", "A", "D", "E">>
    [] type = "n" -> <<"S", "E", "T", " ", "N", "U", "L", "L">>
    [] type = "d" -> <<"S", "E", "T", " ", "D", "E", "F", "A", "U", "L", "T">>
    [] type = "r" -> <<"R", "E", "S", "T", "R", "I", "C", "T">>
    [] OTHER -> <<"N", "O", " ", "A", "C", "T", "I", "O", "N">>

\* constraintLine of a constraint row, NoText when the row renders nothing.
ConstraintLine(constraint) ==
  LET head == <<" ", " ", "C", "O", "N", "S", "T", "R", "A", "I", "N", "T", " ">> \o constraint.constraint_name
  IN CASE constraint.constraint_type = "PRIMARY KEY" ->
            head \o <<" ", "P", "R", "I", "M", "A", "R", "Y", " ", "K", "E", "Y", " ">> \o Parens(constraint.column_name)
       [] constraint.constraint_type = "FOREIGN KEY" ->
            head \o <<" ", "F", "O", "R", "E", "I", "G", "N", " ", "K", "E", "Y", " ">> \o Parens(constraint.column_name) \o <<" ", "R", "E", "F", "E", "R", "E", "N", "C", "E", "S", " ">>
              \o constraint.foreign_table_name \o Parens(constraint.foreign_column_name)
              \o (IF constraint.confupdtype # "" /\ constraint.confupdtype # "a"
                  THEN <<" ", "O", "N", " ", "U", "P", "D", "A", "T", "E", " ">> \o GetActionType(constraint.confupdtype) ELSE <<>>)
              \o (IF constraint.confdeltype # "" /\ constraint.confdeltype # "a"
                  THEN <<" ", "O", "N", " ", "D", "E", "L", "E", "T", "E", " ">> \o GetActionType(constraint.confdeltype) ELSE <<>>)
       [] constraint.constraint_type = "UNIQUE" ->
            head \o <<" ", "U", "N", "I", "Q", "U", "E", " ">> \o Parens(constraint.column_name)
       [] constraint.constraint_type = "CHECK" /\ TruthyText(constraint.check_clause) ->
            head \o <<" ", "C", "H", "E", "C", "K", " ">> \o Parens(constraint.check_clause)
       [] OTHER -> NoText

\* columnLines at the end of generateTableSQL: the columns' lines, then one
\* line per constraint row that renders one.
TableLines(columns, constraints) ==
  [i \in 1..Len(columns) |-> ColumnLine(columns[i])]
    \o SelectSeq([k \in 1..Len(constraints) |-> ConstraintLine(constraints[k])],
                 LAMBDA line : TruthyText(line))

\* generateTableSQL(tableName, columns, constraints)
GenerateTableSQL(tableName, columns, constraints) ==
  <<"C", "R", "E", "A", "T", "E", " ", "T", "A", "B", "L", "E", " ", "I", "F", " ", "N", "O", "T", " ", "E", "X", "I", "S", "T", "S", " ">> \o tableName \o <<" ", "(", "\n">>
    \o Join(TableLines(columns, constraints), <<",", "\n">>)
    \o <<"\n", ")", ";", "\n">>

\* ------------------------------------------- lib/exporter.js: SQL utilities

\* s.replace(sub, new) for a string pattern: the first occurrence only.
ReplaceFirst(s, sub, new) ==
  LET i == IndexFrom(s, sub, 1)
  IN IF i = 0 THEN s
     ELSE SubSeq(s, 1, i - 1) \o new \o SubSeq(s, i + Len(sub), Len(s))

\* One element of columnDefs in formatCreateTable.
ColumnDef(col) ==
  LET def == <<" ", " ">> \o col.column_name \o <<" ">> \o col.data_type
      sized == IF col.character_maximum_length # 0
               THEN ReplaceFirst(def, col.data_type,
                                 col.data_type \o Parens(NatToString(col.character_maximum_length)))
               ELSE def
  IN sized
       \o (IF col.is_nullable = "NO" THEN <<" ", "N", "O", "T", " ", "N", "U", "L", "L">> ELSE <<>>)
       \o (IF TruthyText(col.column_default) THEN <<" ", "D", "E", "F", "A", "U", "L", "T", " ">> \o col.column_default ELSE <<>>)

\* One element of constraintDefs in formatCreateTable, NoText for ''.
ConstraintDef(constraint) ==
  LET head == <<" ", " ", "C", "O", "N", "S", "T", "R", "A", "I", "N", "T", " ">> \o constraint.name
  IN CASE constraint.type = "PRIMARY KEY" ->
            head \o <<" ", "P", "R", "I", "M", "A", "R", "Y", " ", "K", "E", "Y", " ">> \o Parens(Join(constraint.columns, <<",", " ">>))
       [] constraint.type = "FOREIGN KEY" -> head \o <<" ">> \o constraint.foreign_key_info.definition
       [] constraint.type = "CHECK" -> head \o <<" ", "C", "H", "E", "C", "K", " ">> \o constraint.check_clause
       [] constraint.type = "UNIQUE" ->
            head \o <<" ", "U", "N", "I", "Q", "U", "E", " ">> \o Parens(Join(constraint.columns, <<",", " ">>))
       [] OTHER -> NoText

\* formatCreateTable(tableName, columns, constraints)
FormatCreateTable(tableName, columns, constraints) ==
  Join(<<<<"C", "R", "E", "A", "T", "E", " ", "T", "A", "B", "L", "E", " ", "I", "F", " ", "N", "O", "T", " ", "E", "X", "I", "S", "T", "S", " ">> \o tableName \o <<" ", "(">>,
         Join([i \in 1..Len(columns) |-> ColumnDef(columns[i])]
                \o SelectSeq([k \in 1..Len(constraints) |-> ConstraintDef(constraints[k])],
                             LAMBDA line : TruthyText(line)),
              <<",", "\n">>),
         <<")", ";">>>>, <<"\n">>)

\* A JavaScript value of a data row: its typeof-level kind with the number,
\* the boolean, the string (for an object: its JSON.stringify text) or the
\* array's elements.
JsValue(kind, num, bool, text, items) ==
  [kind |-> kind, num |-> num, bool |-> bool, text |-> text, items |-> items]

JsNull == JsValue("null", 0, FALSE, <<>>, <<>>)

JsUndefined == JsValue("undefined", 0, FALSE, <<>>, <<>>)

JsNumber(n) == JsValue("number", n, FALSE, <<>>, <<>>)

JsBoolean(b) == JsValue("boolean", 0, b, <<>>, <<>>)

JsString(s) == JsValue("string", 0, FALSE, s, <<>>)

JsObject(json) == JsValue("object", 0, FALSE, json, <<>>)

JsArray(items) == JsValue("array", 0, FALSE, <<>>, items)

\* s.replace(/'/g, "''")
RECURSIVE DoubleQuotes(_)
DoubleQuotes(s) ==
  IF s = <<>> THEN <<>>
  ELSE (IF Head(s) = "'" THEN <<"'", "'">> ELSE <<Head(s)>>) \o DoubleQuotes(Tail(s))

\* escapeSqlValue(value), as [throws, text]: undefined has no toString, the
\* call is a TypeError.
RECURSIVE EscapeSqlValue(_)
EscapeSqlValue(value) ==
  CASE value.kind = "null" -> [throws |-> FALSE, text |-> <<"N", "U", "L", "L">>]
    [] value.kind = "number" -> [throws |-> FALSE, text |-> IntToString(value.num)]
    [] value.kind = "boolean" ->
         [throws |-> FALSE, text |-> IF value.bool THEN <<"T", "R", "U", "E">> ELSE <<"F", "A", "L", "S", "E">>]
    [] value.kind = "array" ->
         LET parts == [i \in 1..Len(value.items) |-> EscapeSqlValue(value.items[i])]
         IN IF \E i \in 1..Len(parts) : parts[i].throws
            THEN [throws |-> TRUE, text |-> NoText]
            ELSE [throws |-> FALSE,
                  text |-> <<"A", "R", "R", "A", "Y", "[">>
                             \o Join([i \in 1..Len(parts) |-> parts[i].text], <<",", " ">>)
                             \o <<"]">>]
    [] value.kind \in {"object", "string"} ->
         [throws |-> FALSE, text |-> <<"'">> \o DoubleQuotes(value.text) \o <<"'">>]
    [] OTHER -> [throws |-> TRUE, text |-> NoText]

\* Object.keys(row): a row is the sequence of its [key, value] properties.
ObjectKeys(row) == [i \in 1..Len(row) |-> row[i].key]

\* row[col]: the property's value, undefined when the row has no such key.
Property(row, col) ==
  IF \E i \in 1..Len(row) : row[i].key = col
  THEN row[CHOOSE i \in 1..Len(row) : row[i].key = col].value
  ELSE JsUndefined

\* Mutant of FormatInsert: the check for no rows is missing, Object.keys of
\* the missing first row throws.
FormatInsertNoEmptyCheck(tableName, rows) ==
  IF ~rows.given \/ Len(rows.rows) = 0 THEN [throws |-> TRUE, text |-> NoText]
  ELSE LET columns == ObjectKeys(rows.rows[1])
           cells == [r \in 1..Len(rows.rows) |->
                       [c \in 1..Len(columns) |->
                          EscapeSqlValue(Property(rows.rows[r], columns[c]))]]
       IN IF \E r \in 1..Len(cells) : \E c \in 1..Len(columns) : cells[r][c].throws
          THEN [throws |-> TRUE, text |-> NoText]
          ELSE [throws |-> FALSE,
                text |-> Join(<<<<"I", "N", "S", "E", "R", "T", " ", "I", "N", "T", "O", " ">> \o tableName \o <<" ", "(">>
                                  \o Join(columns, <<",", " ">>) \o <<")", " ", "V", "A", "L", "U", "E", "S">>,
                                Join([r \in 1..Len(cells) |->
                                        Parens(Join([c \in 1..Len(columns) |-> cells[r][c].text],
                                                    <<",", " ">>))],
                                     <<",", "\n">>),
                                <<";">>>>, <<"\n">>)]

\* formatInsert(tableName, rows), as [throws, text]; rows is [given, rows],
\* not given standing for null or undefined.
FormatInsert(tableName, rows) ==
  IF ~rows.given \/ Len(rows.rows) = 0
  THEN [throws |-> FALSE, text |-> <<"-", "-", " ", "N", "o", " ", "d", "a", "t", "a", " ", "t", "o", " ", "i", "n", "s", "e", "r", "t", " ", "f", "o", "r", " ", "t", "a", "b", "l", "e", " ">> \o tableName]
  ELSE LET columns == ObjectKeys(rows.rows[1])
           cells == [r \in 1..Len(rows.rows) |->
                       [c \in 1..Len(columns) |->
                          EscapeSqlValue(Property(rows.rows[r], columns[c]))]]
       IN IF \E r \in 1..Len(cells) : \E c \in 1..Len(columns) : cells[r][c].throws
          THEN [throws |-> TRUE, text |-> NoText]
          ELSE [throws |-> FALSE,
                text |-> Join(<<<<"I", "N", "S", "E", "R", "T", " ", "I", "N", "T", "O", " ">> \o tableName \o <<" ", "(">>
                                  \o Join(columns, <<",", " ">>) \o <<")", " ", "V", "A", "L", "U", "E", "S">>,
                                Join([r \in 1..Len(cells) |->
                                        Parens(Join([c \in 1..Len(columns) |-> cells[r][c].text],
                                                    <<",", " ">>))],
                                     <<",", "\n">>),
                                <<";">>>>, <<"\n">>)]

\* typesSql of exportTypes for a non-empty list of types [name, values].
ExportTypesSql(types) ==
  <<"-", "-", " ", "C", "u", "s", "t", "o", "m", " ", "t", "y", "p", "e", "s", "\n", "\n">>
    \o Join([i \in 1..Len(types) |->
               <<"C", "R", "E", "A", "T", "E", " ", "T", "Y", "P", "E", " ">> \o types[i].name \o <<" ", "A", "S", " ", "E", "N", "U", "M", " ", "(", "\n">>
                 \o Join([n \in 1..Len(types[i].values) |->
                            <<" ", " ", "'">> \o types[i].values[n] \o <<"'">>],
                         <<",", "\n">>)
                 \o <<"\n", ")", ";", "\n", "\n">>], <<>>)

\* formatCreateEnum(typeName, values)
FormatCreateEnum(typeName, values) ==
  <<"C", "R", "E", "A", "T", "E", " ", "T", "Y", "P", "E", " ">> \o typeName \o <<" ", "A", "S", " ", "E", "N", "U", "M", " ", "(">>
    \o Join([n \in 1..Len(values) |-> <<"'">> \o DoubleQuotes(values[n]) \o <<"'">>],
            <<",", " ">>)
    \o <<")", ";">>

\* ------------------------- the psql-based converter: the emitted model code

\* json[key] of a Dart map, held as a sequence of [key, value] entries: null
\* for a key the map does not have.
JsonGet(json, key) ==
  IF \E k \in 1..Len(json) : json[k].key = key
  THEN json[CHOOSE k \in 1..Len(json) : json[k].key = key].value
  ELSE JsNull

\* int.tryParse(v.toString()) ?? 0 of the emitted code, for a value that is
\* neither null nor a number.
TryParseInt(v) ==
  LET s == v.text
      digits == IF s # <<>> /\ Head(s) \in {"-", "+"} THEN Tail(s) ELSE s
  IN IF v.kind # "string" \/ digits = <<>> \/ \E k \in 1..Len(digits) : ~IsDigit(digits[k]) THEN 0
     ELSE IF Head(s) = "-" THEN 0 - DigitsValue(digits) ELSE DigitsValue(digits)

\* The value the emitted fromJson gives a field of Dart type int, or of a
\* type with no conversion of its own (String, bool, dynamic): lines 250-252
\* and 263-265.
FromJsonField(dartType, v) ==
  IF dartType = <<"i", "n", "t">>
  THEN IF v.kind = "null" THEN JsNull
       ELSE IF v.kind = "number" THEN v
       ELSE JsNumber(TryParseInt(v))
  ELSE v

\* The emitted factory <Class>.fromJson(json) on columns of Dart type int,
\* String or bool: the constructor's arguments by column, and throws when a
\* null reaches a parameter of a non-nullable type.
ConvFromJson(columns, json) ==
  LET fields == [i \in 1..Len(columns) |->
                   FromJsonField(ConvGetDartType(columns[i]).type, JsonGet(json, columns[i].name))]
  IN [throws |-> \E i \in 1..Len(columns) : ~columns[i].isNullable /\ fields[i].kind = "null",
      fields |-> fields]

\* The emitted toJson() on the same columns: data[name] = name, under
\* `if (name != null)` for a nullable column; the entries of the map returned.
ConvToJson(columns, fields) ==
  SelectSeq([i \in 1..Len(columns) |-> [key |-> columns[i].name, value |-> fields[i]]],
            LAMBDA entry : \A i \in 1..Len(columns) :
                             columns[i].name = entry.key /\ columns[i].isNullable
                               => entry.value.kind # "null")

\* ------------------------------------------------------------- variables

VARIABLES
  config,     \* the object passed to the constructor
  catalog,    \* the database's catalog during the run
  exporter,   \* the DatabaseExporter's fields (this.*)
  pc,         \* where export() is
  pool,       \* "none" | "open" | "closed"
  files,      \* the file system: path -> content
  writes,     \* the paths written by this run, in order
  queue,      \* the rows the current loop still has to handle
  tablesSql,  \* exportTables' buffer
  ran,        \* the stages entered so far
  failed,     \* the stage whose await threw, or "none"
  failedRow,  \* the table whose loop pass threw, or Null
  outcome,    \* "pending" | "resolved" | "rejected"
  error,      \* the error export() rejected with
  result,     \* the value export() resolved with
  dpc,        \* the generators or renderers that have run
  dCols,      \* the rows given to them (column rows, data rows, enum types)
  dCons,      \* the constraint rows given to them
  dOut,       \* the output of lib/utils/files.js's function, or of the first
  cOut        \* the output of the other function

exportVars ==
  <<config, catalog, exporter, pc, pool, files, writes, queue, tablesSql,
    ran, failed, failedRow, outcome, error, result>>

dartVars == <<dpc, dCols, dCons, dOut, cOut>>

vars ==
  <<config, catalog, exporter, pc, pool, files, writes, queue, tablesSql,
    ran, failed, failedRow, outcome, error, result, dpc, dCols, dCons, dOut, cOut>>

\* ------------------------------------------------------- DatabaseExporter

\* constructor(config)
Constructor(cfg) ==
  [outputDir |-> OrElse(cfg.outputDir, "./exported_database"),
   dartOutputDir |-> OrElse(cfg.dartOutputDir, "lib/models"),
   schemaOnly |-> (cfg.schemaOnly \/ FALSE),
   tables |-> IF cfg.tables.given THEN cfg.tables ELSE NoList,
   stats |-> [types |-> 0, tables |-> 0, functions |-> 0, triggers |-> 0]]

\* path.join(dir, name)
PathJoin(dir, name) == dir \o "/" \o name

\* The stages of export(), in order.
Stages == <<"types", "tables", "functions", "triggers", "dart">>

StageNo(s) == CHOOSE i \in 1..Len(Stages) : Stages[i] = s

\* writeToFile(filePath, content), when the write succeeds.
WriteToFile(path, content) ==
  /\ files' = (path :> content) @@ files
  /\ writes' = Append(writes, path)

\* The body of export() up to initializePool(): lines 47-53.
BeginExport ==
  /\ pc = "start"
  /\ pool' = "open"
  /\ pc' = "types"
  /\ UNCHANGED <<dpc, dCols, dCons, dOut, cOut, failedRow, config, catalog, exporter, files, writes, queue, tablesSql,
                 ran, failed, outcome, error, result>>

\* Mutant of ExportCatch: the catch logs the error and does not rethrow it.
ExportCatchSwallows(err) ==
  /\ pc' = "done"
  /\ outcome' = "resolved"
  /\ UNCHANGED <<error, result>>

\* catch (error) { console.error(...); throw error; } of export().
ExportCatch(err) ==
  /\ pc' = "done"
  /\ outcome' = "rejected"
  /\ error' = err
  /\ UNCHANGED result

\* An await of stage `stage` throws: a query (op = "query") or a write, in the
\* loop pass of table `row` when the stage is in a loop.
StageThrows(stage, op, row) ==
  /\ ran' = ran \cup {stage}
  /\ failed' = stage
  /\ failedRow' = row
  /\ ExportCatch([stage |-> stage, op |-> op])
  /\ UNCHANGED <<dpc, dCols, dCons, dOut, cOut, config, catalog, exporter, pool, files, writes, queue, tablesSql>>

\* fs.ensureDir(this.outputDir) throws before the pool is opened.
BeginExportFails ==
  /\ pc = "start"
  /\ failed' = "ensureDir"
  /\ ExportCatch([stage |-> "ensureDir", op |-> "mkdir"])
  /\ UNCHANGED <<dpc, dCols, dCons, dOut, cOut, failedRow, config, catalog, exporter, pool, files, writes, queue, tablesSql, ran>>

\* The text exportTypes builds: the header, then one CREATE TYPE per type.
TypesSql(n) == <<[stmt |-> "--", of |-> "Custom types"]>> \o [i \in 1..n |-> [stmt |-> "CREATE TYPE", of |-> i]]

\* exportTypes(pool), all awaits succeeding.
ExportTypes ==
  /\ pc = "types"
  /\ ran' = ran \cup {"types"}
  /\ LET n == catalog.types
     IN IF n > 0
        THEN /\ WriteToFile(PathJoin(exporter.outputDir, "01_types.sql"), TypesSql(n))
             /\ exporter' = [exporter EXCEPT !.stats.types = n]
        ELSE UNCHANGED <<files, writes, exporter>>
  /\ pc' = "tables"
  /\ UNCHANGED <<dpc, dCols, dCons, dOut, cOut, failedRow, config, catalog, pool, queue, tablesSql, failed, outcome, error, result>>

\* exportTypes(pool): the query throws, or (with types to write) the write does.
ExportTypesFails ==
  /\ pc = "types"
  /\ \E op \in {"query"} \cup (IF catalog.types > 0 THEN {"write"} ELSE {}) :
       StageThrows("types", op, Null)

\* The rows of exportTables' listing: base tables, filtered by this.tables when
\* it is set, ORDER BY table_name.
ListBaseTables(cat, allow) ==
  SortedSeq({t \in TableIds :
               /\ cat.tables[t] = "BASE TABLE"
               /\ (allow.given => TableName(t) \in allow.names)})

\* exportTables(pool): the listing query and the buffer's first line.
ExportTablesList ==
  /\ pc = "tables"
  /\ ran' = ran \cup {"tables"}
  /\ queue' = ListBaseTables(catalog, exporter.tables)
  /\ tablesSql' = <<[stmt |-> "--", of |-> "Tables with constraints"]>>
  /\ pc' = "tableLoop"
  /\ UNCHANGED <<dpc, dCols, dCons, dOut, cOut, failedRow, config, catalog, exporter, pool, files, writes, failed, outcome, error, result>>

ExportTablesListFails ==
  /\ pc = "tables"
  /\ StageThrows("tables", "query", Null)

\* Mutant of ExportTablesStep: the buffer is written to 02_tables.sql after
\* every table.
ExportTablesStepFlushes ==
  /\ pc = "tableLoop"
  /\ queue # <<>>
  /\ tablesSql' = Append(tablesSql, [stmt |-> "CREATE TABLE", of |-> TableName(Head(queue))])
  /\ queue' = Tail(queue)
  /\ WriteToFile(PathJoin(exporter.outputDir, "02_tables.sql"), tablesSql')
  /\ UNCHANGED <<dpc, dCols, dCons, dOut, cOut, failedRow, config, catalog, exporter, pc, pool, ran, failed,
                 outcome, error, result>>

\* One pass of exportTables' loop: the two queries of a table and its
\* CREATE TABLE statement appended to the buffer.
ExportTablesStep ==
  /\ pc = "tableLoop"
  /\ queue # <<>>
  /\ tablesSql' = Append(tablesSql, [stmt |-> "CREATE TABLE", of |-> TableName(Head(queue))])
  /\ queue' = Tail(queue)
  /\ UNCHANGED <<dpc, dCols, dCons, dOut, cOut, failedRow, config, catalog, exporter, pc, pool, files, writes, ran, failed,
                 outcome, error, result>>

\* Mutant of ExportTablesStepFails: the loop body catches the error, skips the
\* table and goes on with the next one.
ExportTablesStepSkips ==
  /\ pc = "tableLoop"
  /\ queue # <<>>
  /\ failed' = "tables"
  /\ failedRow' = TableName(Head(queue))
  /\ queue' = Tail(queue)
  /\ UNCHANGED <<dpc, dCols, dCons, dOut, cOut, config, catalog, exporter, pc, pool,
                 files, writes, tablesSql, ran, outcome, error, result>>

\* A query of one table, or generateTableSQL on its rows, throws: nothing in
\* the loop catches it.
ExportTablesStepFails ==
  /\ pc = "tableLoop"
  /\ queue # <<>>
  /\ StageThrows("tables", "query", TableName(Head(queue)))

\* After the loop: the one write of 02_tables.sql, then stats.tables.
ExportTablesWrite ==
  /\ pc = "tableLoop"
  /\ queue = <<>>
  /\ WriteToFile(PathJoin(exporter.outputDir, "02_tables.sql"), tablesSql)
  /\ exporter' = [exporter EXCEPT !.stats.tables = Len(ListBaseTables(catalog, exporter.tables))]
  /\ pc' = "functions"
  /\ UNCHANGED <<dpc, dCols, dCons, dOut, cOut, failedRow, config, catalog, pool, queue, tablesSql, ran, failed, outcome, error, result>>

ExportTablesWriteFails ==
  /\ pc = "tableLoop"
  /\ queue = <<>>
  /\ StageThrows("tables", "write", Null)

FunctionsSql(n) == <<[stmt |-> "--", of |-> "Functions"]>> \o [i \in 1..n |-> [stmt |-> "FUNCTION", of |-> i]]

\* exportFunctions(pool), all awaits succeeding.
ExportFunctions ==
  /\ pc = "functions"
  /\ ran' = ran \cup {"functions"}
  /\ LET n == catalog.functions
     IN IF n > 0
        THEN /\ WriteToFile(PathJoin(exporter.outputDir, "03_functions.sql"), FunctionsSql(n))
             /\ exporter' = [exporter EXCEPT !.stats.functions = n]
        ELSE UNCHANGED <<files, writes, exporter>>
  /\ pc' = "triggers"
  /\ UNCHANGED <<dpc, dCols, dCons, dOut, cOut, failedRow, config, catalog, pool, queue, tablesSql, failed, outcome, error, result>>

ExportFunctionsFails ==
  /\ pc = "functions"
  /\ \E op \in {"query"} \cup (IF catalog.functions > 0 THEN {"write"} ELSE {}) :
       StageThrows("functions", op, Null)

TriggersSql(n) == <<[stmt |-> "--", of |-> "Triggers"]>> \o [i \in 1..n |-> [stmt |-> "TRIGGER", of |-> i]]

\* exportTriggers(pool), all awaits succeeding.
ExportTriggers ==
  /\ pc = "triggers"
  /\ ran' = ran \cup {"triggers"}
  /\ LET n == catalog.triggers
     IN IF n > 0
        THEN /\ WriteToFile(PathJoin(exporter.outputDir, "04_triggers.sql"), TriggersSql(n))
             /\ exporter' = [exporter EXCEPT !.stats.triggers = n]
        ELSE UNCHANGED <<files, writes, exporter>>
  /\ pc' = "dart"
  /\ UNCHANGED <<dpc, dCols, dCons, dOut, cOut, failedRow, config, catalog, pool, queue, tablesSql, failed, outcome, error, result>>

ExportTriggersFails ==
  /\ pc = "triggers"
  /\ \E op \in {"query"} \cup (IF catalog.triggers > 0 THEN {"write"} ELSE {}) :
       StageThrows("triggers", op, Null)

\* The rows of the Dart loop's listing: every table of schema public, views
\* included, whatever this.tables holds; the query has no ORDER BY.
ListAllTables(cat) == {t \in TableIds : cat.tables[t] # "absent"}

\* if (this.dartOutputDir) { ensureDir; list the tables }
DartList ==
  /\ pc = "dart"
  /\ IF Truthy(exporter.dartOutputDir)
     THEN /\ ran' = ran \cup {"dart"}
          /\ queue' = ListAllTables(catalog)
          /\ pc' = "dartLoop"
     ELSE /\ pc' = "end"
          /\ UNCHANGED <<ran, queue>>
  /\ UNCHANGED <<dpc, dCols, dCons, dOut, cOut, failedRow, config, catalog, exporter, pool, files, writes, tablesSql, failed,
                 outcome, error, result>>

\* catch (error) { console.error(...); throw error; } of the Dart block: the
\* error goes on to export()'s own catch.
DartCatch(stage, op, row) == StageThrows(stage, op, row)

DartListFails ==
  /\ pc = "dart"
  /\ Truthy(exporter.dartOutputDir)
  /\ \E op \in {"mkdir", "query"} : DartCatch("dart", op, Null)

\* The file the Dart loop writes for a table.
DartFile(t) == PathJoin(exporter.dartOutputDir, TableName(t) \o ".dart")

\* One pass of the Dart loop: the two queries of a table, generateDartModel,
\* and the write of <table>.dart.
DartStep ==
  /\ pc = "dartLoop"
  /\ \E t \in queue :
       /\ WriteToFile(DartFile(t), <<[stmt |-> "class", of |-> TableName(t)]>>)
       /\ queue' = queue \ {t}
  /\ UNCHANGED <<dpc, dCols, dCons, dOut, cOut, failedRow, config, catalog, exporter, pc, pool, tablesSql, ran, failed,
                 outcome, error, result>>

DartStepFails ==
  /\ pc = "dartLoop"
  /\ \E t \in queue, op \in {"query", "write"} : DartCatch("dart", op, TableName(t))

\* The Dart loop is over.
DartDone ==
  /\ pc = "dartLoop"
  /\ queue = {}
  /\ pc' = "end"
  /\ UNCHANGED <<dpc, dCols, dCons, dOut, cOut, failedRow, config, catalog, exporter, pool, files, writes, queue, tablesSql,
                 ran, failed, outcome, error, result>>

\* What export() returns: it has no return statement.
ExportReturnValue(exp) == Undefined

\* await pool.end(); the statistics are logged; export() returns.
ExportEnd ==
  /\ pc = "end"
  /\ pool' = "closed"
  /\ pc' = "done"
  /\ outcome' = "resolved"
  /\ result' = ExportReturnValue(exporter)
  /\ UNCHANGED <<dpc, dCols, dCons, dOut, cOut, failedRow, config, catalog, exporter, files, writes, queue, tablesSql, ran,
                 failed, error>>

\* pool.end() throws.
ExportEndFails ==
  /\ pc = "end"
  /\ failed' = "end"
  /\ ExportCatch([stage |-> "end", op |-> "end"])
  /\ UNCHANGED <<dpc, dCols, dCons, dOut, cOut, failedRow, config, catalog, exporter, pool, files, writes, queue, tablesSql, ran>>

ExportNext ==
  \/ BeginExport
  \/ BeginExportFails
  \/ ExportTypes
  \/ ExportTypesFails
  \/ ExportTablesList
  \/ ExportTablesListFails
  \/ ExportTablesStep
  \/ ExportTablesStepFails
  \/ ExportTablesWrite
  \/ ExportTablesWriteFails
  \/ ExportFunctions
  \/ ExportFunctionsFails
  \/ ExportTriggers
  \/ ExportTriggersFails
  \/ DartList
  \/ DartListFails
  \/ DartStep
  \/ DartStepFails
  \/ DartDone
  \/ ExportEnd
  \/ ExportEndFails

\* The generators are idle while export() is modelled.
DartIdle ==
  /\ dpc = {}
  /\ dCols = <<>>
  /\ dCons = <<>>
  /\ dOut = <<>>
  /\ cOut = <<>>

\* A DatabaseExporter has been constructed; the output directory is empty.
Init ==
  /\ config \in Configs
  /\ catalog \in Catalogs
  /\ exporter = Constructor(config)
  /\ pc = "start"
  /\ pool = "none"
  /\ files = <<>>
  /\ writes = <<>>
  /\ queue = <<>>
  /\ tablesSql = <<>>
  /\ ran = {}
  /\ failed = "none"
  /\ failedRow = Null
  /\ outcome = "pending"
  /\ error = Null
  /\ result = Null
  /\ DartIdle

Next == ExportNext

Spec == Init /\ [][Next]_vars

\* ------------------------------------------- the Dart generators on a table

\* The names of a table's columns, by ordinal position.
ColumnNames == <<<<"i", "d">>, <<"s", "t", "a", "t", "u", "s">>, <<"c", "r", "e", "a", "t", "e", "d", "_", "a", "t">>, <<"t", "o", "t", "a", "l">>>>

\* data_type and column_default of the NOT NULL columns tried (NoText: no
\* default).
DataDefaults ==
  {<<<<"i", "n", "t", "e", "g", "e", "r">>, NoText>>,
   <<<<"i", "n", "t", "e", "g", "e", "r">>, <<"4", "2">>>>,
   <<<<"i", "n", "t", "e", "g", "e", "r">>, <<"n", "e", "x", "t", "v", "a", "l", "(", "'", "s", "e", "q", "'", ")">>>>,
   <<<<"b", "i", "g", "i", "n", "t">>, <<"-", "7">>>>,
   <<<<"s", "m", "a", "l", "l", "i", "n", "t">>, <<"4", "2">>>>,
   <<<<"n", "u", "m", "e", "r", "i", "c">>, <<"4", ".", "5">>>>,
   <<<<"t", "e", "x", "t">>, <<"'", "x", "'", ":", ":", "t", "e", "x", "t">>>>,
   <<<<"c", "h", "a", "r", "a", "c", "t", "e", "r", " ", "v", "a", "r", "y", "i", "n", "g">>, <<"'", "a", "'", ":", ":", "c", "h", "a", "r", "a", "c", "t", "e", "r", " ", "v", "a", "r", "y", "i", "n", "g">>>>,
   <<<<"b", "o", "o", "l", "e", "a", "n">>, <<"t", "r", "u", "e">>>>,
   <<<<"t", "i", "m", "e", "s", "t", "a", "m", "p", " ", "w", "i", "t", "h", " ", "t", "i", "m", "e", " ", "z", "o", "n", "e">>, <<"n", "o", "w", "(", ")">>>>,
   <<<<"u", "u", "i", "d">>, <<"g", "e", "n", "_", "r", "a", "n", "d", "o", "m", "_", "u", "u", "i", "d", "(", ")">>>>,
   <<<<"A", "R", "R", "A", "Y">>, NoText>>}

\* data_type and column_default of the nullable columns tried.
NullableDataDefaults ==
  {<<<<"i", "n", "t", "e", "g", "e", "r">>, NoText>>,
   <<<<"i", "n", "t", "e", "g", "e", "r">>, <<"4", "2">>>>,
   <<<<"t", "e", "x", "t">>, NoText>>,
   <<<<"t", "i", "m", "e", "s", "t", "a", "m", "p", " ", "w", "i", "t", "h", " ", "t", "i", "m", "e", " ", "z", "o", "n", "e">>, <<"n", "o", "w", "(", ")">>>>}

\* is_nullable with data_type and column_default.
ColumnShapes == ({"NO"} \X DataDefaults) \cup ({"YES"} \X NullableDataDefaults)

\* The rows of information_schema.columns for a table of 1..MaxCols columns.
ColumnRowLists ==
  UNION {{[i \in 1..n |->
             [column_name |-> ColumnNames[i],
              data_type |-> f[i][2][1],
              is_nullable |-> f[i][1],
              column_default |-> f[i][2][2]]] : f \in [1..n -> ColumnShapes]} : n \in 1..MaxCols}

ConstraintRow(type, column, foreignTable, foreignColumn, clause) ==
  [constraint_type |-> type,
   column_name |-> column,
   foreign_table_name |-> foreignTable,
   foreign_column_name |-> foreignColumn,
   check_clause |-> clause]

\* The constraint rows tried: none; a primary key; a primary key, a foreign
\* key and a CHECK that lists the values of status; a CHECK that lists the
\* values a and b of status; a CHECK on status that the query returns twice
\* (its join with pg_constraint is on the constraint's name alone).
ConstraintLists ==
  {<<>>,
   <<ConstraintRow("PRIMARY KEY", <<"i", "d">>, <<"o", "r", "d", "e", "r", "s">>, <<"i", "d">>, NoText)>>,
   <<ConstraintRow("PRIMARY KEY", <<"i", "d">>, <<"o", "r", "d", "e", "r", "s">>, <<"i", "d">>, NoText),
     ConstraintRow("FOREIGN KEY", <<"s", "t", "a", "t", "u", "s">>, <<"s", "t", "a", "t", "e", "s">>, <<"c", "o", "d", "e">>, NoText),
     ConstraintRow("CHECK", NoText, <<"o", "r", "d", "e", "r", "s">>, <<"s", "t", "a", "t", "u", "s">>,
                   <<"(", "(", "s", "t", "a", "t", "u", "s", " ", "=", " ", "A", "N", "Y", " ", "(", "A", "R", "R", "A", "Y", "[", "'", "o", "p", "e", "n", "'", ":", ":", "t", "e", "x", "t", ",", " ", "'", "i", "n", "_", "p", "r", "o", "g", "r", "e", "s", "s", "'", ":", ":", "t", "e", "x", "t", "]", ")", ")", ")">>)>>,
   <<ConstraintRow("CHECK", NoText, <<"o", "r", "d", "e", "r", "s">>, <<"s", "t", "a", "t", "u", "s">>,
                   <<"(", "(", "s", "t", "a", "t", "u", "s", " ", "=", " ", "A", "N", "Y", " ", "(", "A", "R", "R", "A", "Y", "[", "'", "a", "'", ":", ":", "t", "e", "x", "t", ",", " ", "'", "b", "'", ":", ":", "t", "e", "x", "t", "]", ")", ")", ")">>)>>,
   <<ConstraintRow("CHECK", NoText, <<"o", "r", "d", "e", "r", "s">>, <<"s", "t", "a", "t", "u", "s">>,
                   <<"(", "(", "s", "t", "a", "t", "u", "s", " ", "=", " ", "A", "N", "Y", " ", "(", "A", "R", "R", "A", "Y", "[", "'", "o", "p", "e", "n", "'", ":", ":", "t", "e", "x", "t", ",", " ", "'", "i", "n", "_", "p", "r", "o", "g", "r", "e", "s", "s", "'", ":", ":", "t", "e", "x", "t", "]", ")", ")", ")">>),
     ConstraintRow("CHECK", NoText, <<"o", "r", "d", "e", "r", "s">>, <<"s", "t", "a", "t", "u", "s">>,
                   <<"(", "(", "s", "t", "a", "t", "u", "s", " ", "=", " ", "A", "N", "Y", " ", "(", "A", "R", "R", "A", "Y", "[", "'", "o", "p", "e", "n", "'", ":", ":", "t", "e", "x", "t", ",", " ", "'", "i", "n", "_", "p", "r", "o", "g", "r", "e", "s", "s", "'", ":", ":", "t", "e", "x", "t", "]", ")", ")", ")">>)>>}

\* The table the generators are run on.
DartTableName == <<"o", "r", "d", "e", "r", "_", "i", "t", "e", "m", "s">>

\* No export is running while the generators are modelled.
ExportIdle ==
  /\ config = [outputDir |-> Null, dartOutputDir |-> Null, schemaOnly |-> FALSE, tables |-> NoList]
  /\ catalog = [types |-> 0, functions |-> 0, triggers |-> 0,
                tables |-> [t \in TableIds |-> "absent"]]
  /\ exporter = Constructor(config)
  /\ pc = "idle"
  /\ pool = "none"
  /\ files = <<>>
  /\ writes = <<>>
  /\ queue = <<>>
  /\ tablesSql = <<>>
  /\ ran = {}
  /\ failed = "none"
  /\ failedRow = Null
  /\ outcome = "pending"
  /\ error = Null
  /\ result = Null

\* The catalog rows of one table are at hand; no generator has run.
InitDart ==
  /\ ExportIdle
  /\ dpc = {}
  /\ dCols \in ColumnRowLists
  /\ dCons \in ConstraintLists
  /\ dOut = <<>>
  /\ cOut = <<>>

\* generateDartModel(tableName, columns, constraints, options) of files.js.
RunGenerateDartModel ==
  /\ "files" \notin dpc
  /\ \E generateDocs \in BOOLEAN :
       dOut' = GenerateDartModel(DartTableName, dCols, dCons, generateDocs)
  /\ dpc' = dpc \cup {"files"}
  /\ UNCHANGED <<exportVars, dCols, dCons, cOut>>

\* generateDartModel(tableName, options) of the psql-based converter, psql
\* printing one line per column row.
RunConvGenerateDartModel ==
  /\ "conv" \notin dpc
  /\ \E generateDocs \in BOOLEAN :
       cOut' = ConvGenerateDartModel(DartTableName,
                                     [i \in 1..Len(dCols) |-> PsqlLine(dCols[i])],
                                     generateDocs)
  /\ dpc' = dpc \cup {"conv"}
  /\ UNCHANGED <<exportVars, dCols, dCons, dOut>>

NextDart ==
  \/ RunGenerateDartModel
  \/ RunConvGenerateDartModel

SpecDart == InitDart /\ [][NextDart]_vars

\* --------------------------------------------- the SQL renderers on a table

\* The names of a table's columns in the SQL renderers' runs, by position.
SqlColumnNames == <<<<"i", "d">>, <<"c", "h", "a", "r", "a", "c", "t", "e", "r", "_", "n", "a", "m", "e">>, <<"a", "m", "o", "u", "n", "t">>, <<"n", "o", "t", "e">>>>

\* A row of get_column_definitions without its name; 0 is a null size.
SqlShape(nullable, type, length, precision, scale, default) ==
  [is_nullable |-> nullable,
   data_type |-> type,
   character_maximum_length |-> length,
   numeric_precision |-> precision,
   numeric_scale |-> scale,
   column_default |-> default]

\* The columns tried, as information_schema.columns describes them.
SqlShapes ==
  {SqlShape("NO", <<"i", "n", "t", "e", "g", "e", "r">>, 0, 32, 0, NoText),
   SqlShape("NO", <<"i", "n", "t", "e", "g", "e", "r">>, 0, 32, 0, <<"n", "e", "x", "t", "v", "a", "l", "(", "'", "s", "e", "q", "'", ")">>),
   SqlShape("NO", <<"c", "h", "a", "r", "a", "c", "t", "e", "r", " ", "v", "a", "r", "y", "i", "n", "g">>, 255, 0, 0, <<"'", "a", "'", ":", ":", "c", "h", "a", "r", "a", "c", "t", "e", "r", " ", "v", "a", "r", "y", "i", "n", "g">>),
   SqlShape("NO", <<"c", "h", "a", "r", "a", "c", "t", "e", "r">>, 10, 0, 0, NoText),
   SqlShape("NO", <<"n", "u", "m", "e", "r", "i", "c">>, 0, 10, 2, <<"0", ".", "0", "0">>),
   SqlShape("YES", <<"t", "e", "x", "t">>, 0, 0, 0, NoText),
   SqlShape("YES", <<"n", "u", "m", "e", "r", "i", "c">>, 0, 10, 0, NoText),
   SqlShape("YES", <<"c", "h", "a", "r", "a", "c", "t", "e", "r", " ", "v", "a", "r", "y", "i", "n", "g">>, 255, 0, 0, NoText)}

\* The rows of get_column_definitions for a table of 1..MaxCols columns.
SqlColumnRowLists ==
  UNION {{[i \in 1..n |->
             [column_name |-> SqlColumnNames[i],
              data_type |-> f[i].data_type,
              character_maximum_length |-> f[i].character_maximum_length,
              is_nullable |-> f[i].is_nullable,
              numeric_precision |-> f[i].numeric_precision,
              numeric_scale |-> f[i].numeric_scale,
              column_default |-> f[i].column_default]] : f \in [1..n -> SqlShapes]}
         : n \in 1..MaxCols}

\* A row of get_table_constraints.
SqlConstraintRow(name, type, column, foreignTable, foreignColumn, clause, upd, del) ==
  [constraint_name |-> name,
   constraint_type |-> type,
   column_name |-> column,
   foreign_table_name |-> foreignTable,
   foreign_column_name |-> foreignColumn,
   check_clause |-> clause,
   confupdtype |-> upd,
   confdeltype |-> del]

\* A key row: PRIMARY KEY or UNIQUE on one column (pg_constraint's action
\* codes of a constraint that is no foreign key are blank).
KeyRow(name, type, column) ==
  SqlConstraintRow(name, type, column, <<"o", "r", "d", "e", "r", "s">>, column, NoText, " ", " ")

\* pg_constraint.confupdtype / confdeltype of a foreign key.
ActionCodes == {"a", "r", "c", "n", "d"}

\* The constraint rows tried: none; a primary key; a primary key and a
\* foreign key with every pair of actions; a two-column primary key, reported
\* as one row per key column; a primary key, a UNIQUE and a CHECK.
SqlConstraintLists ==
  {<<>>, <<KeyRow(<<"o", "r", "d", "e", "r", "s", "_", "p", "k", "e", "y">>, "PRIMARY KEY", <<"i", "d">>)>>}
  \cup {<<KeyRow(<<"o", "r", "d", "e", "r", "s", "_", "p", "k", "e", "y">>, "PRIMARY KEY", <<"i", "d">>),
          SqlConstraintRow(<<"o", "r", "d", "e", "r", "s", "_", "i", "d", "_", "f", "k", "e", "y">>, "FOREIGN KEY", <<"i", "d">>, <<"c", "u", "s", "t", "o", "m", "e", "r", "s">>, <<"i", "d">>,
                           NoText, upd, del)>> : upd \in ActionCodes, del \in ActionCodes}
  \cup {<<KeyRow(<<"o", "r", "d", "e", "r", "s", "_", "p", "k", "e", "y">>, "PRIMARY KEY", <<"i", "d">>),
          KeyRow(<<"o", "r", "d", "e", "r", "s", "_", "p", "k", "e", "y">>, "PRIMARY KEY", <<"c", "h", "a", "r", "a", "c", "t", "e", "r", "_", "n", "a", "m", "e">>)>>,
        <<KeyRow(<<"o", "r", "d", "e", "r", "s", "_", "p", "k", "e", "y">>, "PRIMARY KEY", <<"i", "d">>),
          KeyRow(<<"o", "r", "d", "e", "r", "s", "_", "i", "d", "_", "k", "e", "y">>, "UNIQUE", <<"i", "d">>),
          SqlConstraintRow(<<"o", "r", "d", "e", "r", "s", "_", "i", "d", "_", "c", "h", "e", "c", "k">>, "CHECK", <<"i", "d">>, <<"o", "r", "d", "e", "r", "s">>, <<"i", "d">>,
                           <<"(", "i", "d", " ", ">", " ", "0", ")">>, " ", " ")>>}

\* The constraints given to formatCreateTable: none (the parameter's
\* default), or one of each type.
FormatConstraintLists ==
  {<<>>,
   <<[type |-> "PRIMARY KEY", name |-> <<"o", "r", "d", "e", "r", "s", "_", "p", "k", "e", "y">>, columns |-> <<<<"i", "d">>, <<"c", "h", "a", "r", "a", "c", "t", "e", "r", "_", "n", "a", "m", "e">>>>,
      foreign_key_info |-> [definition |-> NoText], check_clause |-> NoText],
     [type |-> "FOREIGN KEY", name |-> <<"o", "r", "d", "e", "r", "s", "_", "i", "d", "_", "f", "k", "e", "y">>, columns |-> <<<<"i", "d">>>>,
      foreign_key_info |-> [definition |-> <<"F", "O", "R", "E", "I", "G", "N", " ", "K", "E", "Y", " ", "(", "i", "d", ")", " ", "R", "E", "F", "E", "R", "E", "N", "C", "E", "S", " ", "c", "u", "s", "t", "o", "m", "e", "r", "s", "(", "i", "d", ")">>],
      check_clause |-> NoText],
     [type |-> "CHECK", name |-> <<"o", "r", "d", "e", "r", "s", "_", "i", "d", "_", "c", "h", "e", "c", "k">>, columns |-> <<<<"i", "d">>>>,
      foreign_key_info |-> [definition |-> NoText], check_clause |-> <<"(", "i", "d", " ", ">", " ", "0", ")">>],
     [type |-> "UNIQUE", name |-> <<"o", "r", "d", "e", "r", "s", "_", "i", "d", "_", "k", "e", "y">>, columns |-> <<<<"i", "d">>>>,
      foreign_key_info |-> [definition |-> NoText], check_clause |-> NoText],
     [type |-> "EXCLUDE", name |-> <<"o", "r", "d", "e", "r", "s", "_", "e", "x", "c", "l">>, columns |-> <<<<"i", "d">>>>,
      foreign_key_info |-> [definition |-> NoText], check_clause |-> NoText]>>}

\* The table the SQL renderers are run on.
SqlTableName == <<"o", "r", "d", "e", "r", "s">>

\* The catalog rows of one table are at hand, every constrained column being
\* a column of the table and every primary key column NOT NULL; no renderer
\* has run.
InitSql ==
  /\ ExportIdle
  /\ dpc = {}
  /\ dCols \in SqlColumnRowLists
  /\ dCons \in SqlConstraintLists
  /\ \A k \in 1..Len(dCons) :
       \E i \in 1..Len(dCols) :
         /\ dCols[i].column_name = dCons[k].column_name
         /\ dCons[k].constraint_type = "PRIMARY KEY" => dCols[i].is_nullable = "NO"
  /\ dOut = <<>>
  /\ cOut = <<>>

\* generateTableSQL(tableName, columns, constraints)
RunGenerateTableSQL ==
  /\ "generateTableSQL" \notin dpc
  /\ dOut' = GenerateTableSQL(SqlTableName, dCols, dCons)
  /\ dpc' = dpc \cup {"generateTableSQL"}
  /\ UNCHANGED <<exportVars, dCols, dCons, cOut>>

\* formatCreateTable(tableName, columns, constraints)
RunFormatCreateTable ==
  /\ "formatCreateTable" \notin dpc
  /\ \E constraints \in FormatConstraintLists :
       cOut' = FormatCreateTable(SqlTableName, dCols, constraints)
  /\ dpc' = dpc \cup {"formatCreateTable"}
  /\ UNCHANGED <<exportVars, dCols, dCons, dOut>>

NextSql ==
  \/ RunGenerateTableSQL
  \/ RunFormatCreateTable

SpecSql == InitSql /\ [][NextSql]_vars

\* ------------------------------------------------ formatInsert on data rows

\* The values tried for the id of a data row.
IdValues == {JsNumber(7), JsNull, JsUndefined}

\* The values tried for the payload of a data row.
PayloadValues ==
  {JsNull, JsNumber(0 - 1), JsBoolean(TRUE), JsString(<<"i", "t", "'", "s">>),
   JsArray(<<JsNumber(3), JsString(<<"x", ",", " ", "y">>)>>), JsObject(<<"{", "\"", "k", "\"", ":", "\"", "i", "t", "'", "s", "\"", "}">>), JsUndefined}

\* The data rows tried: every row has the properties id and payload.
DataRows ==
  {<<[key |-> <<"i", "d">>, value |-> a], [key |-> <<"p", "a", "y", "l", "o", "a", "d">>, value |-> b]>> :
     a \in IdValues, b \in PayloadValues}

\* The row lists tried: none given, or 0..MaxRows rows.
DataRowLists ==
  {[given |-> FALSE, rows |-> <<>>]}
    \cup {[given |-> TRUE, rows |-> rows] : rows \in UNION {[1..n -> DataRows] : n \in 0..MaxRows}}

\* The rows of a table are at hand; formatInsert has not run.
InitData ==
  /\ ExportIdle
  /\ dpc = {}
  /\ dCols \in DataRowLists
  /\ dCons = <<>>
  /\ dOut = <<>>
  /\ cOut = <<>>

\* formatInsert(tableName, rows)
RunFormatInsert ==
  /\ "formatInsert" \notin dpc
  /\ dOut' = FormatInsert(SqlTableName, dCols)
  /\ dpc' = dpc \cup {"formatInsert"}
  /\ UNCHANGED <<exportVars, dCols, dCons, cOut>>

NextData == RunFormatInsert

SpecData == InitData /\ [][NextData]_vars

\* ------------------------------------------------- the enum type renderers

\* The names of the enum types, by position in get_types' result.
TypeNames == <<<<"m", "o", "o", "d">>, <<"s", "t", "a", "t", "u", "s">>, <<"s", "h", "i", "f", "t">>, <<"k", "i", "n", "d">>>>

\* The labels of an enum type tried, in enumsortorder.
LabelLists ==
  {<<<<"o", "k">>>>,
   <<<<"s", "a", "d">>, <<"o", "k">>>>,
   <<<<"b">>, <<"a">>, <<"c">>>>,
   <<<<"i", "t", "'", "s">>>>,
   <<<<"n", "e", "w">>, <<"o", "'", "c", "l", "o", "c", "k">>>>,
   <<<<"a">>, <<"'">>, <<"z">>>>}

\* The results of get_types tried: 0..MaxObjects enum types.
TypeLists ==
  UNION {{[i \in 1..n |-> [name |-> TypeNames[i], values |-> f[i]]] : f \in [1..n -> LabelLists]}
         : n \in 0..MaxObjects}

\* The enum types are at hand; nothing has been rendered.
InitTypes ==
  /\ ExportIdle
  /\ dpc = {}
  /\ dCols \in TypeLists
  /\ dCons = <<>>
  /\ dOut = <<>>
  /\ cOut = <<>>

\* The text exportTypes builds for 01_types.sql; none when there is no type.
RunExportTypesSql ==
  /\ "exportTypes" \notin dpc
  /\ dOut' = IF Len(dCols) > 0 THEN ExportTypesSql(dCols) ELSE NoText
  /\ dpc' = dpc \cup {"exportTypes"}
  /\ UNCHANGED <<exportVars, dCols, dCons, cOut>>

\* formatCreateEnum(typeName, values) for every type.
RunFormatCreateEnum ==
  /\ "formatCreateEnum" \notin dpc
  /\ cOut' = [i \in 1..Len(dCols) |-> FormatCreateEnum(dCols[i].name, dCols[i].values)]
  /\ dpc' = dpc \cup {"formatCreateEnum"}
  /\ UNCHANGED <<exportVars, dCols, dCons, dOut>>

NextTypes ==
  \/ RunExportTypesSql
  \/ RunFormatCreateEnum

SpecTypes == InitTypes /\ [][NextTypes]_vars

\* ----------------------------------------------- the type mappers on a type

\* Declared types: data_type as information_schema.columns spells it and the
\* other spellings the mappers take.
DeclaredTypes ==
  {
   \* the names the two mappers and the catalog list
   <<"s", "m", "a", "l", "l", "i", "n", "t">>,
   <<"i", "n", "t", "e", "g", "e", "r">>,
   <<"b", "i", "g", "i", "n", "t">>,
   <<"s", "e", "r", "i", "a", "l">>,
   <<"b", "i", "g", "s", "e", "r", "i", "a", "l">>,
   <<"n", "u", "m", "e", "r", "i", "c">>,
   <<"d", "e", "c", "i", "m", "a", "l">>,
   <<"r", "e", "a", "l">>,
   <<"d", "o", "u", "b", "l", "e", " ", "p", "r", "e", "c", "i", "s", "i", "o", "n">>,
   <<"f", "l", "o", "a", "t", "4">>,
   <<"f", "l", "o", "a", "t", "8">>,
   <<"b", "o", "o", "l", "e", "a", "n">>,
   <<"t", "i", "m", "e", "s", "t", "a", "m", "p">>,
   <<"t", "i", "m", "e", "s", "t", "a", "m", "p", " ", "w", "i", "t", "h", " ", "t", "i", "m", "e", " ", "z", "o", "n", "e">>,
   <<"t", "i", "m", "e", "s", "t", "a", "m", "p", " ", "w", "i", "t", "h", "o", "u", "t", " ", "t", "i", "m", "e", " ", "z", "o", "n", "e">>,
   <<"d", "a", "t", "e">>,
   <<"t", "i", "m", "e">>,
   <<"t", "i", "m", "e", " ", "w", "i", "t", "h", " ", "t", "i", "m", "e", " ", "z", "o", "n", "e">>,
   <<"t", "i", "m", "e", " ", "w", "i", "t", "h", "o", "u", "t", " ", "t", "i", "m", "e", " ", "z", "o", "n", "e">>,
   <<"j", "s", "o", "n">>,
   <<"j", "s", "o", "n", "b">>,
   <<"u", "u", "i", "d">>,
   <<"t", "e", "x", "t">>,
   <<"c", "h", "a", "r", "a", "c", "t", "e", "r", " ", "v", "a", "r", "y", "i", "n", "g">>,
   <<"v", "a", "r", "c", "h", "a", "r">>,
   <<"c", "h", "a", "r", "a", "c", "t", "e", "r">>,
   <<"c", "h", "a", "r">>,
   <<"b", "y", "t", "e", "a">>,
   <<"U", "S", "E", "R", "-", "D", "E", "F", "I", "N", "E", "D">>,
   \* the same names in another letter case
   <<"I", "N", "T", "E", "G", "E", "R">>,
   <<"T", "e", "x", "t">>,
   <<"B", "o", "o", "l", "e", "a", "n">>,
   \* array types, as `T[]` and as ARRAY[T]
   <<"i", "n", "t", "e", "g", "e", "r", "[", "]">>,
   <<"t", "e", "x", "t", "[", "]">>,
   <<"A", "R", "R", "A", "Y", "[", "i", "n", "t", "e", "g", "e", "r", "]">>,
   <<"A", "R", "R", "A", "Y", "[", "t", "e", "x", "t", "]">>,
   <<"A", "R", "R", "A", "Y", "[", "b", "o", "o", "l", "e", "a", "n", "]">>,
   \* a type neither mapper lists
   <<"g", "e", "o", "m", "e", "t", "r", "y">>}

\* A declared type is at hand; no mapper has run.
InitMap ==
  /\ ExportIdle
  /\ dpc = {}
  /\ dCols \in {<<t>> : t \in DeclaredTypes}
  /\ dCons = <<>>
  /\ dOut = <<>>
  /\ cOut = [throws |-> FALSE, type |-> NoText]

\* getDartType(pgType, isNullable) of lib/utils/files.js.
RunGetDartType ==
  /\ "files" \notin dpc
  /\ \E isNullable \in BOOLEAN : dOut' = GetDartType(dCols[1], isNullable)
  /\ dpc' = dpc \cup {"files"}
  /\ UNCHANGED <<exportVars, dCols, dCons, cOut>>

\* getDartType(column) of the psql-based converter.
RunConvGetDartType ==
  /\ "conv" \notin dpc
  /\ cOut' = ConvGetDartType([pgType |-> dCols[1]])
  /\ dpc' = dpc \cup {"conv"}
  /\ UNCHANGED <<exportVars, dCols, dCons, dOut>>

NextMap ==
  \/ RunGetDartType
  \/ RunConvGetDartType

SpecMap == InitMap /\ [][NextMap]_vars

\* --------------------------------------- the renderers called more than once

\* The constraint rows of the repeated calls: none; a primary key; a primary
\* key and a foreign key; a primary key and a CHECK listing a column's values.
RepeatConstraintLists ==
  {<<>>,
   <<KeyRow(<<"o", "r", "d", "e", "r", "s", "_", "p", "k", "e", "y">>, "PRIMARY KEY", <<"i", "d">>)>>,
   <<KeyRow(<<"o", "r", "d", "e", "r", "s", "_", "p", "k", "e", "y">>, "PRIMARY KEY", <<"i", "d">>),
     SqlConstraintRow(<<"o", "r", "d", "e", "r", "s", "_", "i", "d", "_", "f", "k", "e", "y">>, "FOREIGN KEY", <<"i", "d">>, <<"c", "u", "s", "t", "o", "m", "e", "r", "s">>, <<"i", "d">>, NoText, "a", "c")>>,
   <<KeyRow(<<"o", "r", "d", "e", "r", "s", "_", "p", "k", "e", "y">>, "PRIMARY KEY", <<"i", "d">>),
     SqlConstraintRow(<<"o", "r", "d", "e", "r", "s", "_", "i", "d", "_", "c", "h", "e", "c", "k">>, "CHECK", <<"i", "d">>, <<"o", "r", "d", "e", "r", "s">>, <<"i", "d">>,
                      <<"(", "(", "i", "d", " ", "=", " ", "A", "N", "Y", " ", "(", "A", "R", "R", "A", "Y", "[", "'", "a", "'", ":", ":", "t", "e", "x", "t", ",", " ", "'", "b", "'", ":", ":", "t", "e", "x", "t", "]", ")", ")", ")">>, " ", " ")>>}

\* The catalog rows of one table are at hand; no renderer has been called.
InitRepeat ==
  /\ ExportIdle
  /\ dpc = {}
  /\ dCols \in SqlColumnRowLists
  /\ dCons \in RepeatConstraintLists
  /\ dCons # <<>> => dCols[1].is_nullable = "NO"
  /\ dOut = <<>>
  /\ cOut = <<>>

\* Mutant of CallGenerateTableSQL: the text ends with a comment that carries
\* the number of the call.
CallGenerateTableSQLStamped ==
  /\ Len(dOut) < MaxCalls
  /\ dOut' = Append(dOut, GenerateTableSQL(SqlTableName, dCols, dCons)
                            \o <<"-", "-", " ">> \o NatToString(Len(dOut) + 1))
  /\ dpc' = dpc \cup {"generateTableSQL"}
  /\ UNCHANGED <<exportVars, dCols, dCons, cOut>>

\* One more call of generateTableSQL(tableName, columns, constraints) on the
\* rows; dOut holds the texts returned, in call order.
CallGenerateTableSQL ==
  /\ Len(dOut) < MaxCalls
  /\ dOut' = Append(dOut, GenerateTableSQL(SqlTableName, dCols, dCons))
  /\ dpc' = dpc \cup {"generateTableSQL"}
  /\ UNCHANGED <<exportVars, dCols, dCons, cOut>>

\* One more call of generateDartModel(tableName, columns, constraints,
\* {generateDocs}); cOut holds the option and the model returned, in call order.
CallGenerateDartModel ==
  /\ Len(cOut) < MaxCalls
  /\ \E generateDocs \in BOOLEAN :
       cOut' = Append(cOut, [generateDocs |-> generateDocs,
                             code |-> GenerateDartModel(SqlTableName, dCols, dCons, generateDocs)])
  /\ dpc' = dpc \cup {"generateDartModel"}
  /\ UNCHANGED <<exportVars, dCols, dCons, dOut>>

NextRepeat ==
  \/ CallGenerateTableSQL
  \/ CallGenerateDartModel

SpecRepeat == InitRepeat /\ [][NextRepeat]_vars

\* ------------------------------------- the emitted fromJson / toJson on a row

\* The values a column of a table row holds, by declared type.
RowValues(pgType) ==
  CASE pgType = <<"i", "n", "t", "e", "g", "e", "r">> -> {JsNumber(0), JsNumber(7)}
    [] pgType = <<"b", "o", "o", "l", "e", "a", "n">> -> {JsBoolean(TRUE), JsBoolean(FALSE)}
    [] OTHER -> {JsString(<<>>), JsString(<<"x">>)}

\* Columns as getTableColumns returns them, of types mapped to int, bool and
\* String, for a table of 1..MaxCols columns.
JsonColumnLists ==
  UNION {{[i \in 1..n |-> [name |-> ColumnNames[i], pgType |-> f[i][1], isNullable |-> f[i][2],
                           default |-> NoText]]
            : f \in [1..n -> {<<"i", "n", "t", "e", "g", "e", "r">>, <<"b", "o", "o", "l", "e", "a", "n">>, <<"t", "e", "x", "t">>} \X BOOLEAN]}
         : n \in 1..MaxCols}

\* The rows of a table with the given columns, as maps from column name to
\* value: every column is a key, and only a nullable column holds null.
JsonRows(columns) ==
  {[i \in 1..Len(columns) |-> [key |-> columns[i].name, value |-> v[i]]]
     : v \in {w \in [1..Len(columns) -> UNION {RowValues(columns[i].pgType) : i \in 1..Len(columns)}
                                          \cup {JsNull}] :
                \A i \in 1..Len(columns) :
                  \/ w[i] \in RowValues(columns[i].pgType)
                  \/ w[i] = JsNull /\ columns[i].isNullable}}

\* A model class was generated for the columns in dCols; dCons holds a row of
\* the table.
InitJson ==
  /\ ExportIdle
  /\ dpc = {}
  /\ dCols \in JsonColumnLists
  /\ dCons \in JsonRows(dCols)
  /\ dOut = [throws |-> FALSE, fields |-> <<>>]
  /\ cOut = <<>>

\* <Class>.fromJson(row)
RunFromJson ==
  /\ "fromJson" \notin dpc
  /\ dOut' = ConvFromJson(dCols, dCons)
  /\ dpc' = dpc \cup {"fromJson"}
  /\ UNCHANGED <<exportVars, dCols, dCons, cOut>>

\* toJson() of the object fromJson returned.
RunToJson ==
  /\ "fromJson" \in dpc
  /\ ~dOut.throws
  /\ "toJson" \notin dpc
  /\ cOut' = ConvToJson(dCols, dOut.fields)
  /\ dpc' = dpc \cup {"toJson"}
  /\ UNCHANGED <<exportVars, dCols, dCons, dOut>>

NextJson ==
  \/ RunFromJson
  \/ RunToJson

SpecJson == InitJson /\ [][NextJson]_vars

\* ------------------------------------------- export() called a second time

\* What the database may hold at a later run, the tables left as they were:
\* the types, the functions and the triggers are each still there or all
\* dropped.
LaterCatalogs(cat) ==
  {c \in Catalogs :
     /\ c.tables = cat.tables
     /\ c.types \in {0, cat.types}
     /\ c.functions \in {0, cat.functions}
     /\ c.triggers \in {0, cat.triggers}}

\* A DatabaseExporter has been constructed with the defaults for a database
\* whose tables are all base tables.
InitRuns ==
  /\ Init
  /\ config = [outputDir |-> Null, dartOutputDir |-> Null, schemaOnly |-> FALSE, tables |-> NoList]
  /\ \A t \in TableIds : catalog.tables[t] = "BASE TABLE"

\* export() is called again on the same DatabaseExporter once the first call
\* is over (dpc records the earlier call): a new call starts with the
\* object's fields, this.stats included, as the first call left them, and
\* with the files of the output directory in place.
ExportAgain ==
  /\ pc = "done"
  /\ "export" \notin dpc
  /\ dpc' = dpc \cup {"export"}
  /\ catalog' \in LaterCatalogs(catalog)
  /\ pc' = "start"
  /\ pool' = "none"
  /\ writes' = <<>>
  /\ queue' = <<>>
  /\ tablesSql' = <<>>
  /\ ran' = {}
  /\ failed' = "none"
  /\ failedRow' = Null
  /\ outcome' = "pending"
  /\ error' = Null
  /\ result' = Null
  /\ UNCHANGED <<config, exporter, files, dCols, dCons, dOut, cOut>>

NextRuns ==
  \/ BeginExport
  \/ BeginExportFails
  \/ ExportTypes
  \/ ExportTypesFails
  \/ ExportTablesList
  \/ ExportTablesListFails
  \/ ExportTablesStep
  \/ ExportTablesStepFails
  \/ ExportTablesWrite
  \/ ExportTablesWriteFails
  \/ ExportFunctions
  \/ ExportFunctionsFails
  \/ ExportTriggers
  \/ ExportTriggersFails
  \/ DartList
  \/ DartListFails
  \/ DartStep
  \/ DartStepFails
  \/ DartDone
  \/ ExportEnd
  \/ ExportEndFails
  \/ ExportAgain

SpecRuns == InitRuns /\ [][NextRuns]_vars

\* ------------------------------------------------ convertDbToDart on a database

\* The names getTables can return, and a name by its index.
ConvTableNames == <<<<"o", "r", "d", "e", "r", "s">>, <<"p", "r", "o", "f", "i", "l", "e", "s">>, <<"u", "s", "e", "r", "s">>, <<"v", "i", "s", "i", "t", "s">>, <<"z", "o", "n", "e", "s">>>>

\* The lines psql prints for the columns of a table: an integer column, or a
\* column of an array type (data_type ARRAY).
ConvLineLists ==
  {<<PsqlLine([column_name |-> <<"i", "d">>, data_type |-> <<"i", "n", "t", "e", "g", "e", "r">>, is_nullable |-> "NO",
               column_default |-> NoText])>>,
   <<PsqlLine([column_name |-> <<"t", "a", "g", "s">>, data_type |-> <<"A", "R", "R", "A", "Y">>, is_nullable |-> "YES",
               column_default |-> NoText])>>}

\* What getTables returns with each table's column lines: the base tables of
\* the schema, in whatever order the query (it has no ORDER BY) yields them.
ConvTableLists ==
  UNION {{[i \in 1..n |-> [name |-> ConvTableNames[order[i]], lines |-> lines[i]]]
            : order \in {o \in [1..n -> TableIds] : \A i, j \in 1..n : o[i] = o[j] => i = j},
              lines \in [1..n -> ConvLineLists]}
         : n \in 0..MaxTables}

\* path.join(config.outputDir, `${table}.dart`) with the default outputDir.
ConvDartPath(table) == <<".", "/", "d", "a", "r", "t", "_", "m", "o", "d", "e", "l", "s", "/">> \o table \o <<".", "d", "a", "r", "t">>

\* convertDbToDart has not been called; the output directory is empty.
InitConv ==
  /\ ExportIdle
  /\ dpc = {}
  /\ dCols \in ConvTableLists
  /\ dCons = <<>>
  /\ dOut = [successCount |-> 0, errorCount |-> 0]
  /\ cOut = <<>>

\* convertDbToDart up to the loop: the directory exists and getTables
\* returned; queue holds the tables the loop has not reached.
ConvStart ==
  /\ pc = "idle"
  /\ "convertDbToDart" \notin dpc
  /\ dpc' = dpc \cup {"convertDbToDart"}
  /\ queue' = dCols
  /\ pc' = "convertLoop"
  /\ UNCHANGED <<config, catalog, exporter, pool, files, writes, tablesSql, ran, failed, failedRow,
                 outcome, error, result, dCols, dCons, dOut, cOut>>

\* getTables throws: the outer catch logs and rethrows.
ConvStartFails ==
  /\ pc = "idle"
  /\ "convertDbToDart" \notin dpc
  /\ dpc' = dpc \cup {"convertDbToDart"}
  /\ failed' = "getTables"
  /\ error' = [stage |-> "getTables", op |-> "query"]
  /\ outcome' = "rejected"
  /\ pc' = "done"
  /\ UNCHANGED <<config, catalog, exporter, pool, files, writes, queue, tablesSql, ran, failedRow,
                 result, dCols, dCons, dOut, cOut>>

\* Mutant of ConvStepFails: the loop's catch rethrows the error.
ConvStepFailsRethrows ==
  /\ pc = "convertLoop"
  /\ queue # <<>>
  /\ failed' = "generateDartModel"
  /\ failedRow' = Head(queue).name
  /\ error' = [stage |-> "generateDartModel", op |-> "query"]
  /\ outcome' = "rejected"
  /\ pc' = "done"
  /\ UNCHANGED <<config, catalog, exporter, pool, files, writes, queue, tablesSql, ran,
                 result, dpc, dCols, dCons, dOut, cOut>>

\* One pass of the loop with nothing thrown: generateDartModel returns, the
\* file is written, dart format runs or fails (its failure is only warned
\* about), successCount++. cOut holds the console's line per table.
ConvStep ==
  /\ pc = "convertLoop"
  /\ queue # <<>>
  /\ LET table == Head(queue)
         dartContent == ConvGenerateDartModel(table.name, table.lines, TRUE)
     IN /\ dartContent.ok
        /\ WriteToFile(ConvDartPath(table.name), dartContent)
        /\ cOut' = Append(cOut, [table |-> table.name, converted |-> TRUE, thrownBy |-> "none"])
  /\ dOut' = [dOut EXCEPT !.successCount = @ + 1]
  /\ queue' = Tail(queue)
  /\ UNCHANGED <<config, catalog, exporter, pc, pool, tablesSql, ran, failed, failedRow,
                 outcome, error, result, dpc, dCols, dCons>>

\* One pass of the loop with a throw: generateDartModel throws (its psql
\* query fails, or getDartType throws on a column), or writeFileSync does
\* once the model was generated; the loop's catch logs the table and the
\* error, errorCount++, and the loop goes on.
ConvStepFails ==
  /\ pc = "convertLoop"
  /\ queue # <<>>
  /\ LET table == Head(queue)
     IN \E op \in {"query"} \cup
                   (IF ConvGenerateDartModel(table.name, table.lines, TRUE).ok THEN {"write"}
                    ELSE {"getDartType"}) :
          cOut' = Append(cOut, [table |-> table.name, converted |-> FALSE, thrownBy |-> op])
  /\ dOut' = [dOut EXCEPT !.errorCount = @ + 1]
  /\ queue' = Tail(queue)
  /\ UNCHANGED <<config, catalog, exporter, pc, pool, files, writes, tablesSql, ran, failed, failedRow,
                 outcome, error, result, dpc, dCols, dCons>>

\* After the loop: return {success, failed, outputDir}.
ConvReturn ==
  /\ pc = "convertLoop"
  /\ queue = <<>>
  /\ result' = [success |-> dOut.successCount, failed |-> dOut.errorCount,
                outputDir |-> <<".", "/", "d", "a", "r", "t", "_", "m", "o", "d", "e", "l", "s">>]
  /\ outcome' = "resolved"
  /\ pc' = "done"
  /\ UNCHANGED <<config, catalog, exporter, pool, files, writes, queue, tablesSql, ran, failed,
                 failedRow, error, dpc, dCols, dCons, dOut, cOut>>

NextConv ==
  \/ ConvStart
  \/ ConvStartFails
  \/ ConvStep
  \/ ConvStepFails
  \/ ConvReturn

SpecConv == InitConv /\ [][NextConv]_vars

\* ------------------------------------------------------ claims: export()

\* The path of an SQL file of the output directory.
SqlFile(name) == PathJoin(exporter.outputDir, name)

\* A stage's place in export(): directory creation first, pool.end() last.
StageRank(s) ==
  CASE s = "ensureDir" -> 0
    [] s = "end" -> Len(Stages) + 1
    [] OTHER -> StageNo(s)

\* The stage a written path belongs to: the Dart loop writes every path that
\* is not one of the four section files.
FileStage(path) ==
  CASE path = SqlFile("01_types.sql") -> 1
    [] path = SqlFile("02_tables.sql") -> 2
    [] path = SqlFile("03_functions.sql") -> 3
    [] path = SqlFile("04_triggers.sql") -> 4
    [] OTHER -> 5

\* The tables with a CREATE TABLE statement in the written 02_tables.sql.
TablesInTablesFile ==
  IF SqlFile("02_tables.sql") \in DOMAIN files
  THEN {r.of : r \in {x \in Range(files[SqlFile("02_tables.sql")]) : x.stmt = "CREATE TABLE"}}
  ELSE {}

\* The tables with a <table>.dart file.
TablesWithDartFile == {TableName(t) : t \in {u \in TableIds : DartFile(u) \in DOMAIN files}}

\* The tables exportTables' listing returns in this run.
ListedTables == ListBaseTables(catalog, exporter.tables)

\* C1: once an await of a stage has thrown, export() is over and rejected with
\* that stage's error, no later stage has been entered and no file of a later
\* stage has been written.
C1_FailureAbortsPipeline ==
  failed # "none" =>
    /\ pc = "done"
    /\ outcome = "rejected"
    /\ error.stage = failed
    /\ \A s \in ran : StageRank(s) <= StageRank(failed)
    /\ \A i \in 1..Len(writes) : FileStage(writes[i]) <= StageRank(failed)

\* C1 witness: the functions stage failed after the earlier stages wrote their files.
C1_Witness ==
  /\ failed = "functions"
  /\ SqlFile("01_types.sql") \in DOMAIN files
  /\ SqlFile("02_tables.sql") \in DOMAIN files
  /\ outcome = "rejected"

\* C2: after a successful export() the output directory holds 01_types.sql,
\* 02_tables.sql and master.sql, whatever the catalog held.
C2_RequiredFilesExist ==
  outcome = "resolved" =>
    {SqlFile("01_types.sql"), SqlFile("02_tables.sql"), SqlFile("master.sql")}
      \subseteq DOMAIN files

\* C3: a successful export() resolves with a value whose stats are the numbers
\* of types, tables, functions and triggers exported in the run.
C3_ResultCarriesStats ==
  outcome = "resolved" =>
    /\ result # Undefined
    /\ result # Null
    /\ result.stats.types = catalog.types
    /\ result.stats.tables = Len(ListedTables)
    /\ result.stats.functions = catalog.functions
    /\ result.stats.triggers = catalog.triggers

\* The table listing has returned (the buffer is set up) and held no row.
ZeroTablesListed == tablesSql # <<>> /\ ListedTables = <<>>

\* C4: when the table listing returns zero tables, export() does not complete
\* normally and no output file has been written.
C4_ZeroTablesFailsWithoutFiles ==
  ZeroTablesListed =>
    /\ outcome # "resolved"
    /\ writes = <<>>
    /\ pc \in {"tableLoop", "done"}
    /\ (pc = "done" => outcome = "rejected")

\* A query of one table, or its rendering, threw in exportTables' loop.
TableStepFailed == failed = "tables" /\ failedRow # Null

\* C5 as stated: after a table's pass threw, the run goes on: the other listed
\* tables' CREATE TABLE statements are written to 02_tables.sql and the
\* following stage is entered.
C5_TableFailureSkipsOnlyThatTable ==
  (TableStepFailed /\ pc = "done") =>
    /\ Range(ListedTables) \ {t \in TableIds : TableName(t) = failedRow}
         \subseteq {t \in TableIds : TableName(t) \in TablesInTablesFile}
    /\ SqlFile("02_tables.sql") \in DOMAIN files
    /\ "functions" \in ran

\* C5 amended: a table's pass that throws aborts the whole table stage and
\* the run: export() rejects at once, 02_tables.sql is not written (not even
\* with the statements already rendered), stats.tables stays 0 and no later
\* stage is entered.
C5_TableFailureAbortsExport ==
  TableStepFailed =>
    /\ pc = "done"
    /\ outcome = "rejected"
    /\ SqlFile("02_tables.sql") \notin DOMAIN files
    /\ exporter.stats.tables = 0
    /\ ran \cap {"functions", "triggers", "dart"} = {}

\* C5 witness: the second table's pass threw after the first was rendered.
C5_Witness ==
  /\ TableStepFailed
  /\ Len(tablesSql) = 2
  /\ Len(queue) = 1
  /\ outcome = "rejected"

\* C6: with an allow-list, every table with a CREATE TABLE statement in
\* 02_tables.sql or with a <table>.dart file is in the allow-list.
C6_OutputWithinAllowList ==
  exporter.tables.given =>
    (TablesInTablesFile \cup TablesWithDartFile) \subseteq exporter.tables.names

\* C7: no .dart file is written when the constructor is given no
\* dartOutputDir; when it is given one, a successful run has written exactly
\* one <table>.dart per table.
C7_DartOnlyOnRequest ==
  /\ config.dartOutputDir = Null => TablesWithDartFile = {}
  /\ (config.dartOutputDir # Null /\ outcome = "resolved") =>
       \A t \in ListAllTables(catalog) :
         Cardinality({i \in 1..Len(writes) : writes[i] = DartFile(t)}) = 1

\* The data file of a table.
DataFile(t) == SqlFile("03_data_" \o TableName(t) \o ".sql")

\* C8: a successful run with schemaOnly false has written 03_data_<table>.sql
\* for every exported table; with schemaOnly true it has written no data file.
C8_DataFilePerTable ==
  outcome = "resolved" =>
    IF exporter.schemaOnly
    THEN \A t \in TableIds : DataFile(t) \notin DOMAIN files
    ELSE \A t \in Range(ListedTables) : DataFile(t) \in DOMAIN files

\* ------------------------------------------------- claims: Dart generators

\* The positions of the columns given to the generators.
ColumnIds == 1..Len(dCols)

\* files.js's generator has run on the table.
FilesRan == "files" \in dpc

\* The converter has run on the table and emitted a class.
ConvEmitted == "conv" \in dpc /\ cOut.ok

\* The column is NOT NULL and has no default at all.
NotNullNoDefault(row) == row.is_nullable = "NO" /\ row.column_default = NoText

\* The column's default is one of the literals the generator translates:
\* not sequence-backed, and either now(), a quoted ::text default of a text
\* or character varying column, a number of an integer, bigint or numeric
\* column, or true/false of a boolean column.
HasRecognizedDefault(row) ==
  /\ row.column_default # NoText
  /\ ~Includes(row.column_default, <<"n", "e", "x", "t", "v", "a", "l", "(">>)
  /\ \/ Includes(row.column_default, <<"n", "o", "w", "(", ")">>)
     \/ /\ row.data_type \in {<<"t", "e", "x", "t">>, <<"c", "h", "a", "r", "a", "c", "t", "e", "r", " ", "v", "a", "r", "y", "i", "n", "g">>}
        /\ MatchTextDefault(row.column_default).found
     \/ /\ row.data_type \in {<<"i", "n", "t", "e", "g", "e", "r">>, <<"b", "i", "g", "i", "n", "t">>, <<"n", "u", "m", "e", "r", "i", "c">>}
        /\ ~ParseInt(row.column_default).nan
     \/ /\ row.data_type = <<"b", "o", "o", "l", "e", "a", "n">>
        /\ ToLowerCase(row.column_default) \in {<<"t", "r", "u", "e">>, <<"f", "a", "l", "s", "e">>}

IntegerDefault42(row) ==
  /\ row.is_nullable = "NO"
  /\ row.data_type = <<"i", "n", "t", "e", "g", "e", "r">>
  /\ row.column_default = <<"4", "2">>

\* The column is NOT NULL with default nextval('seq').
NextvalDefault(row) ==
  /\ row.is_nullable = "NO"
  /\ row.column_default = <<"n", "e", "x", "t", "v", "a", "l", "(", "'", "s", "e", "q", "'", ")">>

\* C10: in files.js's generateDartModel a non-nullable integer column with
\* default 42 becomes a field that is not required and has the default 42
\* baked in, and a non-nullable column with default nextval('seq') becomes a
\* required field with no default baked in.
C10_DefaultLiteralPolicy ==
  FilesRan =>
    \A i \in ColumnIds :
      /\ IntegerDefault42(dCols[i]) =>
           /\ dOut.fields[i].param.modifier = "@Default"
           /\ dOut.fields[i].param.default = <<"4", "2">>
      /\ NextvalDefault(dCols[i]) =>
           /\ dOut.fields[i].param.modifier = "required"
           /\ dOut.fields[i].param.default = NoText

\* C10's case: the generator has run on a table that has both a non-nullable
\* integer column with default 42 and a non-nullable column with default
\* nextval('seq').
C10_Witness ==
  /\ FilesRan
  /\ \E i, j \in ColumnIds : IntegerDefault42(dCols[i]) /\ NextvalDefault(dCols[j])

\* The type ends with the `?` of a nullable Dart type.
HasNullSuffix(type) == type # <<>> /\ type[Len(type)] = "?"

\* The column's type is overridden by an enum of the table's constraints.
EnumOverridden(row) ==
  \E k \in 1..Len(dOut.enums) :
    dOut.enums[k].name = PascalCase(row.column_name) \o <<"T", "y", "p", "e">>

\* C11: the NOT NULL guarantee is never dropped: the constructor parameter
\* generateDartModel emits for a column with is_nullable = 'NO' is marked
\* required or carries @Default, and its type has no `?` suffix, whatever the
\* column's default and whether or not an enum overrides its type.
C11_NotNullNeverDropped ==
  FilesRan =>
    \A i \in ColumnIds :
      dCols[i].is_nullable = "NO" =>
        /\ dOut.fields[i].param.modifier \in {"required", "@Default"}
        /\ dOut.fields[i].param.modifier = "@Default" <=> dOut.fields[i].param.default # NoText
        /\ ~HasNullSuffix(dOut.fields[i].param.dartType)

\* C11's case: the generator has run on a table with a NOT NULL column whose
\* default is not translated and a NOT NULL column with a default whose type
\* an enum overrides.
C11_Witness ==
  /\ FilesRan
  /\ \E i, j \in ColumnIds :
       /\ dCols[i].is_nullable = "NO"
       /\ dCols[i].column_default # NoText
       /\ ~HasRecognizedDefault(dCols[i])
       /\ dCols[j].is_nullable = "NO"
       /\ HasRecognizedDefault(dCols[j])
       /\ EnumOverridden(dCols[j])

\* C12: the field type generateDartModel emits for a column carries the `?`
\* suffix if and only if is_nullable = 'NO' is false in the column's row.
C12_NullableIffNotNo ==
  FilesRan =>
    \A i \in ColumnIds :
      HasNullSuffix(dOut.fields[i].param.dartType) <=> ~(dCols[i].is_nullable = "NO")

\* C12's case: the generator has run on a table with a nullable column whose
\* type an enum overrides and a column that is not nullable.
C12_Witness ==
  /\ FilesRan
  /\ \E i, j \in ColumnIds :
       /\ dCols[i].is_nullable = "YES"
       /\ EnumOverridden(dCols[i])
       /\ HasNullSuffix(dOut.fields[i].param.dartType)
       /\ dCols[j].is_nullable = "NO"

\* The CHECK clause the catalog reports for status = ANY (ARRAY['a','b']).
StatusAbClause == <<"(", "(", "s", "t", "a", "t", "u", "s", " ", "=", " ", "A", "N", "Y", " ", "(", "A", "R", "R", "A", "Y", "[", "'", "a", "'", ":", ":", "t", "e", "x", "t", ",", " ", "'", "b", "'", ":", ":", "t", "e", "x", "t", "]", ")", ")", ")">>

\* The table has a CHECK constraint with that clause.
HasStatusAbCheck ==
  \E k \in 1..Len(dCons) :
    dCons[k].constraint_type = "CHECK" /\ dCons[k].check_clause = StatusAbClause

\* C13: given a CHECK constraint status = ANY (ARRAY['a','b']) on column
\* status, generateDartModel declares one enum, with exactly the two members
\* a, b in that order, and the status field's type is that enum.
C13_EnumFromCheck ==
  FilesRan /\ HasStatusAbCheck =>
    /\ Len(dOut.enums) = 1
    /\ dOut.enums[1].name = <<"S", "t", "a", "t", "u", "s", "T", "y", "p", "e">>
    /\ dOut.enums[1].members = <<[jsonValue |-> <<"a">>, member |-> <<"a">>],
                                 [jsonValue |-> <<"b">>, member |-> <<"b">>]>>
    /\ \A i \in ColumnIds :
         dCols[i].column_name = <<"s", "t", "a", "t", "u", "s">> =>
           dOut.fields[i].param.dartType
             = <<"S", "t", "a", "t", "u", "s", "T", "y", "p", "e">> \o (IF dCols[i].is_nullable = "YES" THEN <<"?">> ELSE <<>>)

\* C13's case: the generator has run on a table with that CHECK constraint
\* and a status column.
C13_Witness ==
  /\ FilesRan
  /\ HasStatusAbCheck
  /\ \E i \in ColumnIds : dCols[i].column_name = <<"s", "t", "a", "t", "u", "s">>

\* ------------------------------------------------- claims: SQL renderers

TableSqlRan == "generateTableSQL" \in dpc

FormatCreateTableRan == "formatCreateTable" \in dpc

\* A line without the comma that joins it to the next line.
ChompComma(line) ==
  IF line # <<>> /\ line[Len(line)] = "," THEN SubSeq(line, 1, Len(line) - 1) ELSE line

\* The lines of generateTableSQL's text.
SqlLines == LET ls == Split(dOut, "\n") IN [i \in 1..Len(ls) |-> ChompComma(ls[i])]

\* The lines of formatCreateTable's text.
FormatLines == LET ls == Split(cOut, "\n") IN [i \in 1..Len(ls) |-> ChompComma(ls[i])]

\* The positions in SqlLines of the lines after the column lines and before
\* the closing line.
ConstraintLineIds == {l \in 1..Len(SqlLines) : l > 1 + Len(dCols) /\ SqlLines[l] # <<")", ";">> /\ SqlLines[l] # <<>>}

\* The line of the k-th constraint row, every row tried rendering one.
LineOfConstraint(k) == SqlLines[1 + Len(dCols) + k]

\* The SQL keyword of a referential action code of pg_constraint.
ActionKeyword(code) ==
  CASE code = "a" -> <<"N", "O", " ", "A", "C", "T", "I", "O", "N">>
    [] code = "r" -> <<"R", "E", "S", "T", "R", "I", "C", "T">>
    [] code = "c" -> <<"C", "A", "S", "C", "A", "D", "E">>
    [] code = "n" -> <<"S", "E", "T", " ", "N", "U", "L", "L">>
    [] code = "d" -> <<"S", "E", "T", " ", "D", "E", "F", "A", "U", "L", "T">>

\* The text that follows marker on the line, up to the next " ON " or the end.
ClauseKeyword(line, marker) ==
  LET i == IndexFrom(line, marker, 1)
      rest == SubSeq(line, i + Len(marker), Len(line))
      j == IndexFrom(rest, <<" ", "O", "N", " ">>, 1)
  IN IF j = 0 THEN rest ELSE SubSeq(rest, 1, j - 1)

\* The clause is on the line exactly when the action is not NO ACTION, and
\* then with the action's keyword.
ActionClauseRendered(line, marker, code) ==
  /\ Includes(line, marker) <=> code # "a"
  /\ code # "a" => ClauseKeyword(line, marker) = ActionKeyword(code)

\* C14: generateTableSQL emits an ON UPDATE clause, respectively an ON DELETE
\* clause, for a FOREIGN KEY constraint if and only if that action is not
\* NO ACTION, with the action's keyword; delete action CASCADE with update
\* action NO ACTION renders "... ON DELETE CASCADE" and no ON UPDATE clause.
C14_ForeignKeyActionClauses ==
  TableSqlRan =>
    \A k \in 1..Len(dCons) :
      dCons[k].constraint_type = "FOREIGN KEY" =>
        /\ ActionClauseRendered(LineOfConstraint(k), <<" ", "O", "N", " ", "U", "P", "D", "A", "T", "E", " ">>, dCons[k].confupdtype)
        /\ ActionClauseRendered(LineOfConstraint(k), <<" ", "O", "N", " ", "D", "E", "L", "E", "T", "E", " ">>, dCons[k].confdeltype)
        /\ dCons[k].confdeltype = "c" /\ dCons[k].confupdtype = "a" =>
             /\ EndsWith(LineOfConstraint(k), <<")", " ", "O", "N", " ", "D", "E", "L", "E", "T", "E", " ", "C", "A", "S", "C", "A", "D", "E">>)
             /\ ~Includes(LineOfConstraint(k), <<"O", "N", " ", "U", "P", "D", "A", "T", "E">>)

\* C14's case: generateTableSQL has rendered a foreign key with delete action
\* CASCADE and update action NO ACTION.
C14_Witness ==
  /\ TableSqlRan
  /\ \E k \in 1..Len(dCons) :
       /\ dCons[k].constraint_type = "FOREIGN KEY"
       /\ dCons[k].confdeltype = "c"
       /\ dCons[k].confupdtype = "a"
       /\ EndsWith(LineOfConstraint(k), <<"R", "E", "F", "E", "R", "E", "N", "C", "E", "S", " ", "c", "u", "s", "t", "o", "m", "e", "r", "s", "(", "i", "d", ")", " ", "O", "N", " ", "D", "E", "L", "E", "T", "E", " ", "C", "A", "S", "C", "A", "D", "E">>)

\* The constraint lines that define the constraint of that name.
LinesOfName(name) ==
  {l \in ConstraintLineIds : StartsAt(SqlLines[l], <<" ", " ", "C", "O", "N", "S", "T", "R", "A", "I", "N", "T", " ">> \o name \o <<" ">>, 1)}

\* C15: a constraint the provider reports as one row per key column is
\* rendered by generateTableSQL as exactly one CONSTRAINT line: no constraint
\* name is on more than one line of the CREATE TABLE statement, and the
\* statement has at most one PRIMARY KEY line.
C15_OneLinePerConstraint ==
  TableSqlRan =>
    /\ \A k \in 1..Len(dCons) : Cardinality(LinesOfName(dCons[k].constraint_name)) = 1
    /\ Cardinality({l \in ConstraintLineIds : Includes(SqlLines[l], <<" ", "P", "R", "I", "M", "A", "R", "Y", " ", "K", "E", "Y", " ">>)}) <= 1

\* The line is `  <name> <type>[(<size>)] [NOT NULL] [DEFAULT <literal>]` for
\* the column row: the size suffix follows the type, NOT NULL is there exactly
\* for is_nullable = 'NO' and DEFAULT exactly for a column with a default.
WellFormedColumnLine(line, row) ==
  LET prefix == <<" ", " ">> \o row.column_name \o <<" ">> \o row.data_type
      rest == SubSeq(line, Len(prefix) + 1, Len(line))
      close == IndexFrom(rest, <<")">>, 1)
      sized == rest # <<>> /\ Head(rest) = "("
      afterSize == IF sized THEN SubSeq(rest, close + 1, Len(rest)) ELSE rest
  IN /\ StartsAt(line, prefix, 1)
     /\ sized => close # 0
     /\ afterSize = (IF row.is_nullable = "NO" THEN <<" ", "N", "O", "T", " ", "N", "U", "L", "L">> ELSE <<>>)
                      \o (IF row.column_default # NoText
                          THEN <<" ", "D", "E", "F", "A", "U", "L", "T", " ">> \o row.column_default ELSE <<>>)

\* C16: every column line of a CREATE TABLE statement, of generateTableSQL
\* and of formatCreateTable, has the form
\* <name> <type>[(<size>)] [NOT NULL] [DEFAULT <literal>], the size attached
\* to the type; the column lines come first, in the provider's order.
C16_ColumnLineForm ==
  /\ TableSqlRan =>
       \A i \in 1..Len(dCols) : WellFormedColumnLine(SqlLines[1 + i], dCols[i])
  /\ FormatCreateTableRan =>
       \A i \in 1..Len(dCols) : WellFormedColumnLine(FormatLines[1 + i], dCols[i])

\* --------------------------------------------------- claims: formatInsert

InsertRan == "formatInsert" \in dpc

\* No data rows: the list is missing or empty.
NoDataRows == ~dCols.given \/ Len(dCols.rows) = 0

\* The lines of formatInsert's text.
InsertLines == LET ls == Split(dOut.text, "\n") IN [i \in 1..Len(ls) |-> ChompComma(ls[i])]

\* The number of commas of s from index i on that are outside quotes and
\* brackets.
RECURSIVE TopLevelCommas(_, _, _, _)
TopLevelCommas(s, i, inQuote, depth) ==
  IF i > Len(s) THEN 0
  ELSE IF s[i] = "'" THEN TopLevelCommas(s, i + 1, ~inQuote, depth)
  ELSE IF inQuote THEN TopLevelCommas(s, i + 1, inQuote, depth)
  ELSE IF s[i] = "[" THEN TopLevelCommas(s, i + 1, inQuote, depth + 1)
  ELSE IF s[i] = "]" THEN TopLevelCommas(s, i + 1, inQuote, depth - 1)
  ELSE (IF s[i] = "," /\ depth = 0 THEN 1 ELSE 0) + TopLevelCommas(s, i + 1, inQuote, depth)

\* The line is a VALUES tuple of n values.
IsTupleOf(line, n) ==
  /\ Len(line) >= 2
  /\ Head(line) = "("
  /\ line[Len(line)] = ")"
  /\ TopLevelCommas(SubSeq(line, 2, Len(line) - 1), 1, FALSE, 0) = n - 1

\* The SQL literal of a row's id where it has one.
IdLiteral(row) ==
  IF Property(row, <<"i", "d">>).kind = "number" THEN IntToString(Property(row, <<"i", "d">>).num)
  ELSE <<"N", "U", "L", "L">>

\* The number of starts of sub in s.
Occurrences(s, sub) == Cardinality({i \in 1..Len(s) : StartsAt(s, sub, i)})

\* C17: for a table with zero data rows (empty or missing row list)
\* formatInsert emits a SQL comment and no INSERT statement; for a non-empty
\* row list it emits one INSERT with exactly one VALUES tuple per row, in row
\* order, each tuple having as many values as the column list.
C17_InsertShape ==
  InsertRan =>
    /\ NoDataRows =>
         /\ ~dOut.throws
         /\ StartsAt(dOut.text, <<"-", "-", " ">>, 1)
         /\ ~Includes(dOut.text, <<"I", "N", "S", "E", "R", "T">>)
    /\ ~NoDataRows /\ ~dOut.throws =>
         /\ Occurrences(dOut.text, <<"I", "N", "S", "E", "R", "T", " ", "I", "N", "T", "O", " ">>) = 1
         /\ InsertLines[1] = <<"I", "N", "S", "E", "R", "T", " ", "I", "N", "T", "O", " ", "o", "r", "d", "e", "r", "s", " ", "(", "i", "d", ",", " ", "p", "a", "y", "l", "o", "a", "d", ")", " ", "V", "A", "L", "U", "E", "S">>
         /\ Len(InsertLines) = Len(dCols.rows) + 2
         /\ InsertLines[Len(InsertLines)] = <<";">>
         /\ \A r \in 1..Len(dCols.rows) :
              /\ IsTupleOf(InsertLines[1 + r], Len(ObjectKeys(dCols.rows[1])))
              /\ StartsAt(InsertLines[1 + r], <<"(">> \o IdLiteral(dCols.rows[r]) \o <<",">>, 1)

\* C17's case: formatInsert has emitted an INSERT for several rows of
\* different ids, one of them holding an array whose elements hold commas.
C17_Witness ==
  /\ InsertRan
  /\ Len(dCols.rows) >= 2
  /\ ~dOut.throws
  /\ IdLiteral(dCols.rows[1]) # IdLiteral(dCols.rows[2])
  /\ \E r \in 1..Len(dCols.rows) : Property(dCols.rows[r], <<"p", "a", "y", "l", "o", "a", "d">>).kind = "array"
  /\ Len(InsertLines) = Len(dCols.rows) + 2

\* The value cannot be rendered as an SQL literal.
RECURSIVE Unrenderable(_)
Unrenderable(value) ==
  \/ value.kind = "undefined"
  \/ value.kind = "array" /\ \E i \in 1..Len(value.items) : Unrenderable(value.items[i])

\* The row holds a value that cannot be rendered.
UnrenderableRow(row) == \E i \in 1..Len(row) : Unrenderable(row[i].value)

\* C18: when a data row cannot be rendered as SQL literals, formatInsert
\* replaces only that row with a SQL comment and still emits the other rows:
\* it does not fail, and a row's line is a comment exactly when the row cannot
\* be rendered.
C18_UnrenderableRowSkipped ==
  InsertRan /\ ~NoDataRows =>
    /\ ~dOut.throws
    /\ \A r \in 1..Len(dCols.rows) :
         UnrenderableRow(dCols.rows[r]) <=> StartsAt(InsertLines[1 + r], <<"-", "-">>, 1)

\* ----------------------------------------------------- claims: enum types

\* The head of the CREATE TYPE statement of an enum type.
CreateTypeHead(name) == <<"C", "R", "E", "A", "T", "E", " ", "T", "Y", "P", "E", " ">> \o name \o <<" ", "A", "S", " ", "E", "N", "U", "M", " ", "(">>

\* The value list of the first CREATE TYPE statement of that name in the
\* text, blanks and line ends left out.
EnumBody(text, name) ==
  LET i == IndexFrom(text, CreateTypeHead(name), 1)
      from == i + Len(CreateTypeHead(name))
      close == IndexFrom(text, <<")", ";">>, from)
  IN RemoveChar(RemoveChar(SubSeq(text, from, close - 1), " "), "\n")

\* The value list the Types section requires: the labels in their stored
\* order, each between quotes with every quote inside it doubled.
QuotedLabels(values) ==
  Join([n \in 1..Len(values) |-> <<"'">> \o DoubleQuotes(values[n]) \o <<"'">>], <<",">>)

\* The text holds exactly one CREATE TYPE statement for the type, with the
\* required value list.
OneCreateType(text, type) ==
  /\ Occurrences(text, CreateTypeHead(type.name)) = 1
  /\ EnumBody(text, type.name) = QuotedLabels(type.values)

\* C19: for every enum type the Types section holds exactly one
\* CREATE TYPE ... AS ENUM statement, its values in their stored order and
\* every single quote inside a value doubled, in the text exportTypes builds
\* for 01_types.sql as well as in formatCreateEnum's.
C19_EnumStatements ==
  /\ "exportTypes" \in dpc => \A i \in 1..Len(dCols) : OneCreateType(dOut, dCols[i])
  /\ "formatCreateEnum" \in dpc => \A i \in 1..Len(dCols) : OneCreateType(cOut[i], dCols[i])

\* ---------------------------------------------------- claims: type mapper

\* The declared type is one neither type mapper has an entry for.
UnrecognizedType(pgType) ==
  /\ PgToDartType(pgType) = NoText
  /\ ToLowerCase(pgType) \notin
       IntTypes \cup DoubleTypes \cup DateTimeTypes \cup StringArrayTypes \cup IntArrayTypes
         \cup DoubleArrayTypes
         \cup {<<"b", "o", "o", "l", "e", "a", "n">>, <<"j", "s", "o", "n">>, <<"j", "s", "o", "n", "b">>, <<"u", "u", "i", "d">>, <<"b", "y", "t", "e", "a">>, <<"b", "o", "o", "l", "e", "a", "n", "[", "]">>}

\* A Dart type without the `?` of a nullable type.
BareType(type) == IF HasNullSuffix(type) THEN SubSeq(type, 1, Len(type) - 1) ELSE type

\* C20: the type mapper never raises: for every declared type, unrecognized
\* names and the catalog's array spelling ARRAY included, getDartType returns
\* a type, and an unrecognized type maps to dynamic.
C20_TypeMapperNeverRaises ==
  /\ "conv" \in dpc =>
       /\ cOut.ok
       /\ \A i \in ColumnIds :
            UnrecognizedType(dCols[i].data_type) =>
              BareType(cOut.properties[i].type) = <<"d", "y", "n", "a", "m", "i", "c">>
  /\ FilesRan =>
       \A i \in ColumnIds :
         UnrecognizedType(dCols[i].data_type) /\ ~EnumOverridden(dCols[i]) =>
           BareType(dOut.fields[i].param.dartType) = <<"d", "y", "n", "a", "m", "i", "c">>

\* The target type the mapping table gives a declared type that is not an
\* array: NoText for a type the table does not list.
TableScalar(t) ==
  LET l == ToLowerCase(t)
  IN CASE l \in {<<"s", "m", "a", "l", "l", "i", "n", "t">>, <<"i", "n", "t", "e", "g", "e", "r">>, <<"b", "i", "g", "i", "n", "t">>, <<"s", "e", "r", "i", "a", "l">>, <<"b", "i", "g", "s", "e", "r", "i", "a", "l">>} -> <<"i", "n", "t">>
       [] l \in {<<"n", "u", "m", "e", "r", "i", "c">>, <<"d", "e", "c", "i", "m", "a", "l">>, <<"r", "e", "a", "l">>, <<"d", "o", "u", "b", "l", "e", " ", "p", "r", "e", "c", "i", "s", "i", "o", "n">>, <<"f", "l", "o", "a", "t", "4">>, <<"f", "l", "o", "a", "t", "8">>} -> <<"d", "o", "u", "b", "l", "e">>
       [] l = <<"b", "o", "o", "l", "e", "a", "n">> -> <<"b", "o", "o", "l">>
       [] l = <<"d", "a", "t", "e">> \/ StartsAt(l, <<"t", "i", "m", "e", "s", "t", "a", "m", "p">>, 1) -> <<"D", "a", "t", "e", "T", "i", "m", "e">>
       [] StartsAt(l, <<"t", "i", "m", "e">>, 1) -> <<"T", "i", "m", "e", "O", "f", "D", "a", "y">>
       [] l \in {<<"j", "s", "o", "n">>, <<"j", "s", "o", "n", "b">>} -> <<"M", "a", "p", "<", "S", "t", "r", "i", "n", "g", ",", " ", "d", "y", "n", "a", "m", "i", "c", ">">>
       [] l \in {<<"u", "u", "i", "d">>, <<"t", "e", "x", "t">>, <<"c", "h", "a", "r", "a", "c", "t", "e", "r", " ", "v", "a", "r", "y", "i", "n", "g">>, <<"v", "a", "r", "c", "h", "a", "r">>, <<"c", "h", "a", "r", "a", "c", "t", "e", "r">>, <<"c", "h", "a", "r">>} -> <<"S", "t", "r", "i", "n", "g">>
       [] l = <<"b", "y", "t", "e", "a">> -> <<"L", "i", "s", "t", "<", "i", "n", "t", ">">>
       [] l = <<"u", "s", "e", "r", "-", "d", "e", "f", "i", "n", "e", "d">> -> <<"S", "t", "r", "i", "n", "g">>
       [] OTHER -> NoText

\* The element type of an array spelling, `T[]` or ARRAY[T]; NoText otherwise.
ArrayElement(t) ==
  IF EndsWith(t, <<"[", "]">>) THEN SubSeq(t, 1, Len(t) - 2)
  ELSE IF StartsAt(ToLowerCase(t), <<"a", "r", "r", "a", "y", "[">>, 1) /\ EndsWith(t, <<"]">>) THEN SubSeq(t, 7, Len(t) - 1)
  ELSE NoText

\* The mapping table's target for a declared type, arrays included.
TableType(t) ==
  IF ArrayElement(t) # NoText
  THEN IF TableScalar(ArrayElement(t)) = NoText THEN NoText
       ELSE <<"L", "i", "s", "t", "<">> \o TableScalar(ArrayElement(t)) \o <<">">>
  ELSE TableScalar(t)

\* C21: on every declared type the mapping table lists, in any letter case
\* and in both array spellings, getDartType of files.js and getDartType of
\* the converter both return the table's target type.
C21_MappersAgreeWithTable ==
  TableType(dCols[1]) # NoText =>
    /\ "files" \in dpc => BareType(dOut) = TableType(dCols[1])
    /\ "conv" \in dpc => ~cOut.throws /\ cOut.type = TableType(dCols[1])

\* ---------------------------------------------------- claims: determinism

C23_RoundTrip ==
  "toJson" \in dpc => Range(cOut) = Range(dCons)

\* -------------------------------------------------- claims: documentation

\* The constraint rows of a type that name the column: a CHECK row names it
\* in the column of constraint_column_usage.
RowsOn(type, column) ==
  {k \in 1..Len(dCons) :
     /\ dCons[k].constraint_type = type
     /\ IF type = "CHECK" THEN dCons[k].foreign_column_name = column.column_name
        ELSE dCons[k].column_name = column.column_name}

\* C24: with generateDocs on, a field's doc lines name every kind of
\* constraint on its column: `Primary key`, `Foreign key reference to
\* <table>(<column>)`, `Default: <literal>` and `Check constraint:`.
C24_DocLinePerConstraintKind ==
  FilesRan =>
    \A i \in ColumnIds :
      LET docs == dOut.fields[i].docs
          has(prefix) == \E n \in 1..Len(docs) : StartsAt(docs[n], <<"/", "/", "/", " ">> \o prefix, 1)
      IN docs # <<>> =>
           /\ RowsOn("PRIMARY KEY", dCols[i]) # {} => has(<<"P", "r", "i", "m", "a", "r", "y", " ", "k", "e", "y">>)
           /\ \A k \in RowsOn("FOREIGN KEY", dCols[i]) :
                has(<<"F", "o", "r", "e", "i", "g", "n", " ", "k", "e", "y", " ", "r", "e", "f", "e", "r", "e", "n", "c", "e", " ", "t", "o", " ">> \o dCons[k].foreign_table_name \o <<"(">>
                      \o dCons[k].foreign_column_name \o <<")">>)
           /\ TruthyText(dCols[i].column_default) => has(<<"D", "e", "f", "a", "u", "l", "t", ":", " ">> \o dCols[i].column_default)
           /\ RowsOn("CHECK", dCols[i]) # {} => has(<<"C", "h", "e", "c", "k", " ", "c", "o", "n", "s", "t", "r", "a", "i", "n", "t", ":">>)

\* ------------------------------------------- claims: export(), later claims

\* C25: 02_tables.sql is committed all-or-nothing: whenever the file exists
\* it was written once, after the loop, with a statement for every listed
\* table; and after a table's pass threw, the output directory holds what the
\* types stage wrote and nothing else.
C25_TablesFileAllOrNothing ==
  /\ SqlFile("02_tables.sql") \in DOMAIN files =>
       /\ pc \notin {"tables", "tableLoop"}
       /\ Cardinality({i \in 1..Len(writes) : writes[i] = SqlFile("02_tables.sql")}) = 1
       /\ TablesInTablesFile = {TableName(t) : t \in Range(ListedTables)}
  /\ TableStepFailed =>
       /\ DOMAIN files \subseteq {SqlFile("01_types.sql")}
       /\ \A p \in DOMAIN files : files[p] = TypesSql(catalog.types)

\* C25 witness: the second table's pass threw after the types stage wrote
\* 01_types.sql and the first table was rendered into the buffer.
C25_Witness ==
  /\ TableStepFailed
  /\ SqlFile("01_types.sql") \in DOMAIN files
  /\ Len(tablesSql) = 2
  /\ Len(queue) = 1

\* C26: for each column with CHECK-derived enum constraint rows,
\* generateDartModel declares the enum <PascalCase(column)>Type exactly once,
\* however many matching rows the constraints hold for the column.
C26_EnumDeclaredOnce ==
  FilesRan =>
    \A i \in ColumnIds :
      EnumOverridden(dCols[i]) =>
        Cardinality({k \in 1..Len(dOut.enums) :
                       dOut.enums[k].name = PascalCase(dCols[i].column_name) \o <<"T", "y", "p", "e">>}) = 1

\* C27: every pool export() opens is closed before export() finishes, on the
\* success path and on every failure path.
C27_PoolClosedOnEveryPath ==
  pc = "done" => pool \in {"none", "closed"}

\* C28: after any sequence of export() runs on one DatabaseExporter the
\* counters describe the most recent run only: after a run that succeeded
\* stats.types, stats.functions and stats.triggers are the numbers of types,
\* functions and triggers that run found (0 when it found none), and a
\* counter is above 0 only when its section file has been written.
C28_StatsOfLatestRun ==
  /\ outcome = "resolved" =>
       /\ exporter.stats.types = catalog.types
       /\ exporter.stats.functions = catalog.functions
       /\ exporter.stats.triggers = catalog.triggers
  /\ exporter.stats.types > 0 => SqlFile("01_types.sql") \in DOMAIN files
  /\ exporter.stats.functions > 0 => SqlFile("03_functions.sql") \in DOMAIN files
  /\ exporter.stats.triggers > 0 => SqlFile("04_triggers.sql") \in DOMAIN files

\* C29: whenever generateDartModel emits @Default, the literal agrees with
\* the field's type and the column's default: DateTime.now() only on a
\* DateTime field, a quoted string only on a String field (never on a field
\* whose type is a CHECK-derived enum), a numeric literal equal to the
\* column's default.
C29_DefaultAgreesWithType ==
  FilesRan =>
    \A i \in ColumnIds :
      LET param == dOut.fields[i].param
      IN param.modifier = "@Default" =>
           /\ param.default = <<"D", "a", "t", "e", "T", "i", "m", "e", ".", "n", "o", "w", "(", ")">> => param.dartType = <<"D", "a", "t", "e", "T", "i", "m", "e">>
           /\ Head(param.default) = "'" => param.dartType = <<"S", "t", "r", "i", "n", "g">> /\ ~EnumOverridden(dCols[i])
           /\ (IsDigit(Head(param.default)) \/ Head(param.default) = "-") =>
                param.default = dCols[i].column_default

\* ------------------------------------------------ claims: convertDbToDart

\* The tables the loop has handled, in the order it handled them.
ConvHandled == [i \in 1..Len(cOut) |-> cOut[i].table]

\* C30: convertDbToDart handles every table getTables returned exactly once
\* and in order; a table whose generation failed is counted in failed and the
\* later tables are still handled; a .dart file exists only for a table that
\* was converted; and the value returned has success + failed equal to the
\* number of tables.
C30_EveryTableHandledOnce ==
  /\ Len(cOut) <= Len(dCols)
  /\ \A i \in 1..Len(cOut) : ConvHandled[i] = dCols[i].name
  /\ dOut.successCount = Cardinality({i \in 1..Len(cOut) : cOut[i].converted})
  /\ dOut.errorCount = Cardinality({i \in 1..Len(cOut) : ~cOut[i].converted})
  /\ \A i \in 1..Len(dCols) :
       ConvDartPath(dCols[i].name) \in DOMAIN files <=> (i <= Len(cOut) /\ cOut[i].converted)
  /\ \A i \in 1..Len(cOut) :
       cOut[i].converted => ConvGenerateDartModel(dCols[i].name, dCols[i].lines, TRUE).ok
  /\ (pc = "done" /\ failed # "getTables") =>
       /\ outcome = "resolved"
       /\ Len(cOut) = Len(dCols)
       /\ result.success + result.failed = Len(dCols)
       /\ result.failed = dOut.errorCount

\* C30 witness: the first table's generation failed, the second table was
\* converted after it, and convertDbToDart returned 1 and 1.
C30_Witness ==
  /\ pc = "done"
  /\ outcome = "resolved"
  /\ Len(cOut) = 2
  /\ ~cOut[1].converted
  /\ cOut[2].converted
  /\ result.success = 1
  /\ result.failed = 1

====
